---- MODULE Spec2Model ----
(***************************************************************************)
(* A model of my_python_utils: the command executor (run_single_command),  *)
(* the network-interface provisioner built on it (Bridge, Tap, MacVtap,    *)
(* MacVlan) and the remote file transfer (copy_to_remote and               *)
(* copy_from_remote).                                                      *)
(*                                                                         *)
(* Text is modelled as TLC strings; a text that the code strips or scans   *)
(* (a captured stream) is a sequence of chunks, so that strip() and        *)
(* replace() really remove something.                                      *)
(***************************************************************************)
EXTENDS Integers, Sequences, FiniteSets, TLC

(***************************************************************************)
(* Bounds of the model.                                                    *)
(***************************************************************************)
\* exit codes of a process range over 0..MaxExit
MaxExit == 2
\* queue counts of an interface specification range over 0..MaxQueueCount
MaxQueueCount == 8
\* file descriptors handed to get_args range over FirstFd..FirstFd+MaxFdCount-1
MaxFdCount == 2

(***************************************************************************)
(* Text helpers.                                                           *)
(***************************************************************************)
RECURSIVE Concat(_)
\* the text made of the chunks of s, in order
Concat(s) == IF s = <<>> THEN "" ELSE Head(s) \o Concat(Tail(s))

RECURSIVE Join(_)
\* " ".join(words)
Join(words) ==
    IF words = <<>> THEN ""
    ELSE IF Len(words) = 1 THEN words[1]
    ELSE words[1] \o " " \o Join(Tail(words))

\* the chunks str.strip() removes from both ends
Whitespace == {" ", "\n"}

RECURSIVE LStrip(_)
LStrip(s) == IF s # <<>> /\ Head(s) \in Whitespace THEN LStrip(Tail(s)) ELSE s

RECURSIVE RStrip(_)
RStrip(s) ==
    IF s # <<>> /\ s[Len(s)] \in Whitespace
    THEN RStrip(SubSeq(s, 1, Len(s) - 1))
    ELSE s

\* str.strip()
Strip(s) == LStrip(RStrip(s))

SudoPrompt == "[sudo] password:"

RECURSIVE RemoveSudoPrompt(_)
\* str.replace('[sudo] password:', '')
RemoveSudoPrompt(s) ==
    IF s = <<>> THEN <<>>
    ELSE IF Head(s) = SudoPrompt THEN RemoveSudoPrompt(Tail(s))
    ELSE <<Head(s)>> \o RemoveSudoPrompt(Tail(s))

(***************************************************************************)
(* Connection handles.  None is the absent handle.                         *)
(***************************************************************************)
None == [kind |-> "none", name |-> "", host |-> ""]

\* ConnectionWrapper(connection, name): the name defaults to the host
ConnectionWrapper(host, name) ==
    [kind |-> "ssh", name |-> IF name = "" THEN host ELSE name, host |-> host]

\* the wrapper __run_single_command builds for an absent handle
LocalWrapper == [kind |-> "ssh", name |-> "localhost", host |-> "localhost"]

\* connection.name if connection else 'localhost'
NameOf(connection) == IF connection = None THEN "localhost" ELSE connection.name

RemoteHosts == {"h1"}
Machines == {"localhost"} \cup RemoteHosts

Connections ==
    {None, ConnectionWrapper("h1", ""), ConnectionWrapper("h1", "web")}

(***************************************************************************)
(* The command executor: __run_single_command.                             *)
(***************************************************************************)
\* a command given as text
StrCommand(text) == [isList |-> FALSE, text |-> text, items |-> <<>>]
\* a command given as a list of arguments
ListCommand(items) == [isList |-> TRUE, text |-> "", items |-> items]

\* the shell line dispatched: a list is joined, a detached command wrapped
CommandLine(command, disown) ==
    LET line == IF command.isList THEN Join(command.items) ELSE command.text
    IN  IF disown THEN "nohup " \o line \o " &" ELSE line

\* the transport method the command is handed to
Method(connectionWrapper, sudo) ==
    IF connectionWrapper = None THEN "local"
    ELSE IF sudo THEN "sudo" ELSE "run"

\* the machine the command runs on
TargetMachine(connectionWrapper) ==
    IF connectionWrapper = None THEN "localhost" ELSE connectionWrapper.host

\* the call made on the transport
Dispatch(command, connectionWrapper, sudo, disown, pty) ==
    [machine |-> TargetMachine(connectionWrapper),
     method  |-> Method(connectionWrapper, sudo),
     command |-> CommandLine(command, disown),
     hide    |-> ~pty,
     pty     |-> pty,
     warn    |-> TRUE,
     disown  |-> disown]

\* the name the result and the log carry
ResultHostMutBlank(connectionWrapper) ==
    IF connectionWrapper = None THEN "" ELSE connectionWrapper.name
ResultHost(connectionWrapper) ==
    IF connectionWrapper = None THEN LocalWrapper.name ELSE connectionWrapper.name

CommandResult(host, command, return_code, stdout, stderr) ==
    [host |-> host, command |-> command, return_code |-> return_code,
     stdout |-> stdout, stderr |-> stderr]

NoResult == CommandResult("", "", -1, <<>>, <<>>)

\* what a finished process hands back: exit code and the two captured streams
FbResult(exited, stdout, stderr) ==
    [exited |-> exited, stdout |-> stdout, stderr |-> stderr]

\* the result object of a detached command
DetachedResultMutReal(command, connectionWrapper, fb) ==
    CommandResult(ResultHost(connectionWrapper), CommandLine(command, TRUE),
                  fb.exited, <<>>, <<>>)
DetachedResult(command, connectionWrapper, fb) ==
    CommandResult(ResultHost(connectionWrapper), CommandLine(command, TRUE),
                  0, <<>>, <<>>)

\* the result object of a command that was waited for
CapturedResult(command, connectionWrapper, fb) ==
    CommandResult(ResultHost(connectionWrapper), CommandLine(command, FALSE),
                  fb.exited, RemoveSudoPrompt(Strip(fb.stdout)), Strip(fb.stderr))

\* whether the result makes __run_single_command raise CommandException
ShouldRaiseMutAlways(fail_on_returncode, result) == result.return_code # 0
ShouldRaise(fail_on_returncode, result) ==
    fail_on_returncode /\ result.return_code # 0

\* the lines printed before the command is dispatched
StartLines(command, connectionWrapper, disown, no_output) ==
    IF no_output THEN <<>>
    ELSE << "Command: " \o CommandLine(command, disown) \o ", host: "
            \o ResultHost(connectionWrapper) >>

\* the echo of the two streams
StreamLines(result) ==
    (IF Len(result.stdout) > 0
     THEN << "STDOUT:\n" \o Concat(result.stdout), "" >> ELSE <<>>)
    \o
    (IF Len(result.stderr) > 0
     THEN << "STDERR:\n" \o Concat(result.stderr), "" >> ELSE <<>>)

\* the failure report printed before CommandException is raised
FailureLinesMutQuiet(result) == <<>>
FailureLines(result) ==
    << "\n",
       "Error: Command '" \o result.command \o "' failed on host '"
           \o result.host \o "' with exit code "
           \o ToString(result.return_code) \o ".",
       "" >> \o StreamLines(result)

\* the lines printed when the command has completed without raising
EndLines(result, no_pipe, no_output) ==
    (IF no_output THEN <<>>
     ELSE << "Command: " \o result.command \o ", host: " \o result.host
             \o ", return code: " \o ToString(result.return_code) >>)
    \o (IF no_pipe THEN <<>> ELSE StreamLines(result))

\* __run_single_command from the point where the transport call has returned
\* fb: [raised, result, printed]
CompleteMutDrop(command, connectionWrapper, no_pipe, fail_on_returncode, disown, no_output, fb) ==
    LET result == CapturedResult(command, connectionWrapper,
                                 IF no_pipe THEN FbResult(fb.exited, <<>>, <<>>) ELSE fb)
    IN  IF disown
        THEN [raised |-> FALSE, result |-> DetachedResult(command, connectionWrapper, fb),
              printed |-> StartLines(command, connectionWrapper, disown, no_output)]
        ELSE IF ShouldRaise(fail_on_returncode, result)
        THEN [raised |-> TRUE, result |-> result,
              printed |-> StartLines(command, connectionWrapper, disown, no_output)
                          \o FailureLines(result)]
        ELSE [raised |-> FALSE, result |-> result,
              printed |-> StartLines(command, connectionWrapper, disown, no_output)
                          \o EndLines(result, no_pipe, no_output)]
Complete(command, connectionWrapper, no_pipe, fail_on_returncode, disown, no_output, fb) ==
    IF disown
    THEN [raised  |-> FALSE,
          result  |-> DetachedResult(command, connectionWrapper, fb),
          printed |-> StartLines(command, connectionWrapper, disown, no_output)]
    ELSE LET result == CapturedResult(command, connectionWrapper, fb)
         IN  IF ShouldRaise(fail_on_returncode, result)
             THEN [raised  |-> TRUE,
                   result  |-> result,
                   printed |-> StartLines(command, connectionWrapper, disown,
                                          no_output) \o FailureLines(result)]
             ELSE [raised  |-> FALSE,
                   result  |-> result,
                   printed |-> StartLines(command, connectionWrapper, disown,
                                          no_output)
                               \o EndLines(result, no_pipe, no_output)]

\* run_single_command refuses to start: disown with asynchronous
ConfigErrorMutNone(disown, asynchronous) == FALSE
ConfigError(disown, asynchronous) == disown /\ asynchronous

(***************************************************************************)
(* The machines the commands run on.  A machine holds its network          *)
(* interfaces, its /dev/tapN nodes, the login user and the next interface  *)
(* index the kernel hands out.  An interface that is created without an    *)
(* address gets one the kernel draws.                                      *)
(***************************************************************************)
IfNames == {"x0", "m0", "c0"}

ConfiguredMac == "52:54:00:00:00:01"
\* an address `ip link set ... address` refuses (a multicast address)
BadMac == "01:00:00:00:00:01"
\* the addresses the kernel may draw for a new interface
KernelMacs == {"0a:00:00:00:00:0a", "0a:00:00:00:00:0b"}
FactoryMac == "00:16:3e:00:00:01"

ConfiguredIp == "10.0.0.1/24"
OtherIp == "10.0.9.9/24"

LoginUser == "alice"
Users == {LoginUser, "root"}

\* interface indices of the model range over 1..MaxIfindex
MaxIfindex == 9
Ifindexes == 1..MaxIfindex

Iface(kind, up, ip, mac, master, link, ifindex) ==
    [kind |-> kind, up |-> up, ip |-> ip, mac |-> mac, master |-> master,
     link |-> link, ifindex |-> ifindex]

\* the device node of a macvtap interface
DevNode(ifindex) == "/dev/tap" \o ToString(ifindex)
DevNodes == {DevNode(i) : i \in Ifindexes}

Removed(f, gone) == [k \in (DOMAIN f) \ gone |-> f[k]]
With(f, key, value) == [k \in (DOMAIN f) \cup {key} |-> IF k = key THEN value ELSE f[k]]

\* the shell commands the machines understand
ShellCommand(op, a, b, c) == [op |-> op, a |-> a, b |-> b, c |-> c]

ShellCommands ==
    {ShellCommand("whoami", "", "", "")}
    \cup {ShellCommand(op, n, "", "") : op \in {"show", "delete", "add_bridge", "set_up", "set_down", "cat_ifindex"}, n \in IfNames}
    \cup {ShellCommand(op, n, m, "") : op \in {"add_macvlan", "add_macvtap", "set_master"}, n \in IfNames, m \in IfNames}
    \cup {ShellCommand("add_tap", n, u, q) : n \in IfNames, u \in Users, q \in {"", " multi_queue"}}
    \cup {ShellCommand("addr_add", n, ip, "") : n \in IfNames, ip \in {ConfiguredIp, OtherIp}}
    \cup {ShellCommand("set_mac", n, mac, "") : n \in IfNames, mac \in {ConfiguredMac, BadMac}}
    \cup {ShellCommand("ls_node", p, "", "") : p \in DevNodes}
    \cup {ShellCommand("chown", p, u, "") : p \in DevNodes, u \in Users}

\* the command line of a shell command
Render(c) ==
    CASE c.op = "whoami"      -> "whoami"
      [] c.op = "show"        -> "ip link show " \o c.a
      [] c.op = "delete"      -> "ip link delete " \o c.a
      [] c.op = "add_bridge"  -> "ip link add name " \o c.a \o " type bridge"
      [] c.op = "add_macvlan" -> "ip link add link " \o c.b \o " name " \o c.a \o " type macvlan mode bridge"
      [] c.op = "add_macvtap" -> "ip link add link " \o c.b \o " name " \o c.a \o " type macvtap mode bridge"
      [] c.op = "add_tap"     -> "ip tuntap add dev " \o c.a \o " mode tap" \o c.c \o " user " \o c.b \o " group " \o c.b
      [] c.op = "addr_add"    -> "ip addr add " \o c.b \o " dev " \o c.a
      [] c.op = "set_master"  -> "ip link set " \o c.a \o " master " \o c.b
      [] c.op = "set_up"      -> "ip link set " \o c.a \o " up"
      [] c.op = "set_down"    -> "ip link set " \o c.a \o " down"
      [] c.op = "set_mac"     -> "ip link set " \o c.a \o " address " \o c.b
      [] c.op = "cat_ifindex" -> "cat /sys/class/net/" \o c.a \o "/ifindex"
      [] c.op = "ls_node"     -> "ls -l " \o c.a
      [] c.op = "chown"       -> "chown " \o c.b \o ":" \o c.b \o " " \o c.a

ShellTable == {[line |-> Render(c), cmd |-> c] : c \in ShellCommands}

UnknownCommand == ShellCommand("unknown", "", "", "")

\* the shell command a command line stands for
Parse(line) ==
    IF \E e \in ShellTable : e.line = line
    THEN (CHOOSE e \in ShellTable : e.line = line).cmd
    ELSE UnknownCommand

Ok(h, out) == [host |-> h, fb |-> FbResult(0, out, <<>>)]
Fails(h, code, err) == [host |-> h, fb |-> FbResult(code, <<>>, <<err, "\n">>)]

\* the interfaces that go away with interface n: n and what is stacked on it
RECURSIVE StackedOn(_, _)
StackedOn(ifaces, gone) ==
    LET more == {k \in DOMAIN ifaces : ifaces[k].link \in gone} \ gone
    IN  IF more = {} THEN gone ELSE StackedOn(ifaces, gone \cup more)

\* `ip link delete n`: n and the interfaces stacked on it disappear with
\* their device nodes; the members of a deleted bridge are released
KernelDelete(h, n) ==
    LET gone == StackedOn(h.ifaces, {n})
        kept == Removed(h.ifaces, gone)
    IN  [h EXCEPT
           !.ifaces = [k \in DOMAIN kept |->
                         IF kept[k].master \in gone
                         THEN [kept[k] EXCEPT !.master = ""] ELSE kept[k]],
           !.nodes = Removed(h.nodes, {DevNode(h.ifaces[k].ifindex) : k \in gone})]

\* a new interface: down, no address, no master, the next interface index
NewIface(h, n, kind, mac, link) ==
    [h EXCEPT
       !.ifaces = With(h.ifaces, n, Iface(kind, FALSE, "", mac, "", link, h.next_ifindex)),
       !.nodes = IF kind = "macvtap"
                 THEN With(h.nodes, DevNode(h.next_ifindex), "root") ELSE h.nodes,
       !.next_ifindex = h.next_ifindex + 1]

\* the kernel draws the address of a new interface
NewIfaceOutcomes(h, n, kind, link) ==
    {Ok(NewIface(h, n, kind, mac, link), <<>>) : mac \in KernelMacs}

\* what the command of dispatch d may do on a machine in state h: the new
\* state of the machine and what the process hands back
HostOutcomes(h, d) ==
    LET c == Parse(d.command)
        privileged == d.method = "sudo" \/ h.user = "root"
        exists(n) == n \in DOMAIN h.ifaces
        denied == {Fails(h, 2, "Operation not permitted")}
        missing == {Fails(h, 1, "Cannot find device")}
    IN  CASE c.op = "whoami" -> {Ok(h, <<h.user, "\n">>)}
          [] c.op = "show" ->
                IF exists(c.a) THEN {Ok(h, <<c.a, "\n">>)}
                ELSE {Fails(h, 1, "Device does not exist")}
          [] c.op = "cat_ifindex" ->
                IF exists(c.a) THEN {Ok(h, <<ToString(h.ifaces[c.a].ifindex), "\n">>)}
                ELSE {Fails(h, 1, "No such file or directory")}
          [] c.op = "ls_node" ->
                IF c.a \in DOMAIN h.nodes THEN {Ok(h, <<c.a, "\n">>)}
                ELSE {Fails(h, 2, "No such file or directory")}
          [] c.op = "delete" ->
                IF ~privileged THEN denied
                ELSE IF ~exists(c.a) THEN missing
                ELSE IF h.ifaces[c.a].kind = "phys"
                THEN {Fails(h, 2, "Operation not supported")}
                ELSE {Ok(KernelDelete(h, c.a), <<>>)}
          [] c.op = "add_bridge" ->
                IF ~privileged THEN denied
                ELSE IF exists(c.a) THEN {Fails(h, 2, "File exists")}
                ELSE NewIfaceOutcomes(h, c.a, "bridge", "")
          [] c.op \in {"add_macvlan", "add_macvtap"} ->
                IF ~privileged THEN denied
                ELSE IF ~exists(c.b) THEN missing
                ELSE IF exists(c.a) THEN {Fails(h, 2, "File exists")}
                ELSE NewIfaceOutcomes(h, c.a, IF c.op = "add_macvlan" THEN "macvlan" ELSE "macvtap", c.b)
          [] c.op = "add_tap" ->
                IF ~privileged THEN denied
                ELSE IF exists(c.a) THEN {Fails(h, 1, "Device or resource busy")}
                ELSE NewIfaceOutcomes(h, c.a, "tap", "")
          [] c.op = "addr_add" ->
                IF ~privileged THEN denied
                ELSE IF ~exists(c.a) THEN missing
                ELSE IF h.ifaces[c.a].ip = c.b THEN {Fails(h, 2, "File exists")}
                ELSE {Ok([h EXCEPT !.ifaces[c.a].ip = c.b], <<>>)}
          [] c.op = "set_master" ->
                IF ~privileged THEN denied
                ELSE IF ~exists(c.a) \/ ~exists(c.b) THEN missing
                ELSE IF h.ifaces[c.b].kind # "bridge" \/ c.a = c.b
                THEN {Fails(h, 2, "Operation not supported")}
                ELSE {Ok([h EXCEPT !.ifaces[c.a].master = c.b], <<>>)}
          [] c.op \in {"set_up", "set_down"} ->
                IF ~privileged THEN denied
                ELSE IF ~exists(c.a) THEN missing
                ELSE {Ok([h EXCEPT !.ifaces[c.a].up = (c.op = "set_up")], <<>>)}
          [] c.op = "set_mac" ->
                IF ~privileged THEN denied
                ELSE IF ~exists(c.a) THEN missing
                ELSE IF c.b = BadMac THEN {Fails(h, 2, "Cannot assign requested address")}
                ELSE {Ok([h EXCEPT !.ifaces[c.a].mac = c.b], <<>>)}
          [] c.op = "chown" ->
                IF ~privileged THEN denied
                ELSE IF c.a \notin DOMAIN h.nodes
                THEN {Fails(h, 1, "No such file or directory")}
                ELSE {Ok([h EXCEPT !.nodes[c.a] = c.b], <<>>)}
          [] OTHER -> {Fails(h, 127, "command not found")}

(***************************************************************************)
(* Interface specifications.  A configuration dict is a function from the  *)
(* keys it holds to their values.                                          *)
(***************************************************************************)
EmptyDict == [k \in {} |-> ""]
Field(key, value) == [k \in {key} |-> value]
Merge(f, g) == [k \in (DOMAIN f) \cup (DOMAIN g) |-> IF k \in DOMAIN f THEN f[k] ELSE g[k]]
\* the dicts that hold key with one of the values, or do not hold it
Optional(key, values) == {EmptyDict} \cup {Field(key, v) : v \in values}

\* key in interface
Has(interface, key) == key \in DOMAIN interface
\* interface.get(key, default)
Get(interface, key, default) == IF Has(interface, key) THEN interface[key] ELSE default

\* an interface object; master and ip_address are "" where Python holds None
IfaceObject(variant, name, master, mac_address, ip_address, queue_count, vhost, childs, connection) ==
    [variant |-> variant, name |-> name, master |-> master,
     mac_address |-> mac_address, ip_address |-> ip_address,
     queue_count |-> queue_count, vhost |-> vhost, childs |-> childs,
     connection |-> connection]

NoObject == IfaceObject("none", "", "", "", "", 1, FALSE, <<>>, None)

\* a constructor ends with the object or in sys.exit(1)
Built(object) == [ok |-> TRUE, object |-> object]
Exits == [ok |-> FALSE, object |-> NoObject]

\* MacVlan.__init__
MacVlanInit(interface, connection) ==
    IF ~(Has(interface, "name") /\ Has(interface, "master") /\ Has(interface, "ip_address"))
    THEN Exits
    ELSE Built(IfaceObject("MacVlan", interface["name"], interface["master"], "",
                           interface["ip_address"], 1, FALSE, <<>>, connection))

\* MacVtap.__init__
MacVtapInit(interface, connection) ==
    IF ~(Has(interface, "name") /\ Has(interface, "master") /\ Has(interface, "mac_address"))
    THEN Exits
    ELSE Built(IfaceObject("MacVtap", interface["name"], interface["master"],
                           interface["mac_address"], "",
                           Get(interface, "queue_count", 1),
                           Get(interface, "vhost", FALSE), <<>>, connection))

\* the test on ip_address and master in Tap.__init__
TapKeysOkMutAtLeastOne(interface) ==
    Has(interface, "ip_address") \/ Has(interface, "master")
TapKeysOk(interface) ==
    (Has(interface, "ip_address") /\ ~Has(interface, "master"))
    \/ (~Has(interface, "ip_address") /\ Has(interface, "master"))

\* Tap.__init__
TapInit(interface, connection) ==
    IF ~(Has(interface, "name") /\ Has(interface, "mac_address"))
    THEN Exits
    ELSE IF ~TapKeysOk(interface)
    THEN Exits
    ELSE Built(IfaceObject("Tap", interface["name"], Get(interface, "master", ""),
                           interface["mac_address"], Get(interface, "ip_address", ""),
                           Get(interface, "queue_count", 1),
                           Get(interface, "vhost", FALSE), <<>>, connection))

\* Bridge.__init__
BridgeInitMutNoExit(bridge, connection) ==
    Built(IfaceObject("Bridge", Get(bridge, "name", ""), "", "",
                      Get(bridge, "ip_address", ""), 1, FALSE,
                      Get(bridge, "childs", <<>>), connection))
BridgeInit(bridge, connection) ==
    IF ~Has(bridge, "name")
    THEN Exits
    ELSE Built(IfaceObject("Bridge", bridge["name"], "", "",
                           Get(bridge, "ip_address", ""), 1, FALSE,
                           Get(bridge, "childs", <<>>), connection))

\* User.__init__: the Connection argument is not kept
UserInit(interface, connection) ==
    IF ~(Has(interface, "mac_address") /\ Has(interface, "name"))
    THEN Exits
    ELSE Built(IfaceObject("User", interface["name"], "", interface["mac_address"], "",
                           1, FALSE, <<>>, None))

Variants == {"Bridge", "Tap", "MacVtap", "MacVlan", "User"}

Construct(variant, interface, connection) ==
    CASE variant = "Bridge"  -> BridgeInit(interface, connection)
      [] variant = "Tap"     -> TapInit(interface, connection)
      [] variant = "MacVtap" -> MacVtapInit(interface, connection)
      [] variant = "MacVlan" -> MacVlanInit(interface, connection)
      [] variant = "User"    -> UserInit(interface, connection)

Merge3(a, b, c) == Merge(a, Merge(b, c))

\* the configuration dicts the model constructs each variant from
Dicts(variant) ==
    CASE variant = "Bridge" ->
            {Merge3(n, i, c) : n \in Optional("name", {"x0"}),
                               i \in Optional("ip_address", {ConfiguredIp}),
                               c \in Optional("childs", {<<"c0">>, <<"c0", "m0">>})}
      [] variant = "Tap" ->
            {Merge(Merge3(n, a, i), Merge(m, q)) :
                               n \in Optional("name", {"x0"}),
                               a \in Optional("mac_address", {ConfiguredMac}),
                               i \in Optional("ip_address", {"", ConfiguredIp}),
                               m \in Optional("master", {"m0"}),
                               q \in Optional("queue_count", {2})}
      [] variant = "MacVtap" ->
            {Merge(Merge3(n, a, m), q) :
                               n \in Optional("name", {"x0"}),
                               a \in Optional("mac_address", {ConfiguredMac, BadMac}),
                               m \in Optional("master", {"m0"}),
                               q \in Optional("queue_count", {2})}
      [] variant = "MacVlan" ->
            {Merge3(n, m, i) : n \in Optional("name", {"x0"}),
                               m \in Optional("master", {"m0"}),
                               i \in Optional("ip_address", {ConfiguredIp})}
      [] variant = "User" ->
            {Merge(n, a) : n \in Optional("name", {"x0"}),
                           a \in Optional("mac_address", {ConfiguredMac})}

\* the handles an interface is provisioned through
IfaceConnections == {None, ConnectionWrapper("h1", "")}

(***************************************************************************)
(* The command lines the provisioner composes.                             *)
(***************************************************************************)
\* check_iface: what it returns for the result of `ip link show`
IfaceExistsMutNever(shown) == FALSE
IfaceExistsMutAlways(shown) == TRUE
IfaceExists(shown) == shown.return_code = 0
\* check_iface
CheckIfaceCmd(iface) == StrCommand("ip link show " \o iface)
\* delete_iface
DeleteIfaceCmd(iface) == StrCommand("ip link delete " \o iface)
\* set_iface_up
SetIfaceUpCmd(name) == StrCommand("ip link set " \o name \o " up")
\* set_iface_down
SetIfaceDownCmd(name) == StrCommand("ip link set " \o name \o " down")
\* set_iface_ip
SetIfaceIpCmd(name, ip_address) == StrCommand("ip addr add " \o ip_address \o " dev " \o name)
\* set_iface_mac
SetIfaceMacCmdMutUp(name, mac_address) == StrCommand("ip link set " \o name \o " up")
SetIfaceMacCmd(name, mac_address) == StrCommand("ip link set " \o name \o " address " \o mac_address)
\* get_username
GetUsernameCmd == StrCommand("whoami")
\* get_devicefile_name: the two commands
CatIfindexCmd(name) == StrCommand("cat " \o "/sys/class/net/" \o name \o "/ifindex")
LsNodeCmd(ifacepath) == StrCommand("ls -l " \o ifacepath)
\* the device file name get_devicefile_name derives from the stripped stdout
IfacePath(stdout) == "/dev/tap" \o Concat(Strip(stdout))
\* MacVlan.create: the command is split into words and joined again
MacVlanAddCmd(o) ==
    ListCommand(<<"ip", "link", "add", "link", o.master, "name", o.name, "type", "macvlan", "mode", "bridge">>)
\* MacVtap.create
MacVtapAddCmd(o) ==
    StrCommand("ip link add link " \o o.master \o " name " \o o.name \o " type macvtap mode bridge")
ChownCmdMutRoot(username, device_file_name) ==
    StrCommand("chown root:root " \o device_file_name)
ChownCmd(username, device_file_name) ==
    StrCommand("chown " \o username \o ":" \o username \o " " \o device_file_name)
\* Tap.create
TapAddCmd(o, username) ==
    StrCommand("ip tuntap add dev " \o o.name \o " mode tap"
               \o (IF o.queue_count > 1 THEN " multi_queue" ELSE "")
               \o " user " \o username \o " group " \o username)
SetMasterCmd(name, master) == StrCommand("ip link set " \o name \o " master " \o master)
\* Bridge.create
BridgeAddCmd(o) == StrCommand("ip link add name " \o o.name \o " type bridge")

(***************************************************************************)
(* The hypervisor arguments.  A token is the sequence of its               *)
(* comma-separated fields.                                                 *)
(***************************************************************************)
\* vhost_option
VhostOption(o) == IF o.vhost THEN <<"vhost=on">> ELSE <<>>

\* vectors = 2 * self.queue_count + 1
VectorsMutNoPlusOne(queue_count) == 2 * queue_count
Vectors(queue_count) == 2 * queue_count + 1

\* the test that turns multi-queue on in get_args
MultiQueue(queue_count) == queue_count > 1

\* mq_option
MqOption(o) ==
    IF MultiQueue(o.queue_count)
    THEN <<"mq=on", "vectors=" \o ToString(Vectors(o.queue_count))>>
    ELSE <<>>

\* tap_queues
TapQueues(o) ==
    IF MultiQueue(o.queue_count)
    THEN <<"queues=" \o ToString(o.queue_count)>>
    ELSE <<>>

\* the mac the device token of get_args carries
DeviceMac(o) == o.mac_address

\* the -device token of Tap.get_args and MacVtap.get_args
DeviceToken(o) ==
    <<"virtio-net-pci", "netdev=" \o o.name, "mac=" \o DeviceMac(o)>> \o MqOption(o)

\* Tap.get_args
TapGetArgs(o, fd) ==
    << <<"-netdev">>,
       <<"tap", "id=" \o o.name, "ifname=" \o o.name, "script=no", "downscript=no">>
           \o VhostOption(o) \o TapQueues(o),
       <<"-device">>,
       DeviceToken(o) >>

\* MacVtap.get_args, once get_devicefile_name has returned
MacVtapGetArgs(o, fd, device_file_name) ==
    << <<"-netdev">>,
       <<"tap", "id=" \o o.name, "fd=" \o ToString(fd)>> \o VhostOption(o) \o TapQueues(o),
       <<ToString(fd) \o "<>" \o device_file_name>>,
       <<"-device">>,
       DeviceToken(o) >>

\* User.get_args
UserGetArgs(o) ==
    << <<"-netdev">>,
       <<"user", "id=" \o o.name>>,
       <<"-device">>,
       <<"virtio-net-pci", "netdev=" \o o.name, "mac=" \o o.mac_address>> >>

\* the file descriptors get_args is called with
Fds == 3..(2 + MaxFdCount)

(***************************************************************************)
(* File systems.  A path is the sequence of its components, with a flag    *)
(* for a trailing separator; a file system maps the paths that exist to    *)
(* their nodes.  The content of an archive is the set of its entries.      *)
(***************************************************************************)
PathOf(parts, slash) == [parts |-> parts, slash |-> slash]

RECURSIVE JoinSlash(_)
JoinSlash(parts) == IF parts = <<>> THEN "" ELSE "/" \o Head(parts) \o JoinSlash(Tail(parts))

\* the text of a path whose components are parts
PartsStr(parts) == IF parts = <<>> THEN "/" ELSE JoinSlash(parts)
\* str(path) of a path given as text
PathStr(p) == IF p.slash /\ p.parts # <<>> THEN JoinSlash(p.parts) \o "/" ELSE PartsStr(p.parts)

\* Path(p).name and Path(p).parent: a trailing separator is dropped
PathName(p) == IF p.parts = <<>> THEN "" ELSE p.parts[Len(p.parts)]
PathParent(p) == IF p.parts = <<>> THEN <<>> ELSE SubSeq(p.parts, 1, Len(p.parts) - 1)
\* os.path.basename(p): empty after a trailing separator
Basename(p) == IF p.slash \/ p.parts = <<>> THEN "" ELSE p.parts[Len(p.parts)]
\* os.path.join(p, name)
PathJoin(p, name) == IF name = "" THEN PathOf(p.parts, TRUE) ELSE PathOf(Append(p.parts, name), FALSE)
\* p.endswith('/')
EndsWithSlash(p) == p.slash \/ p.parts = <<>>

FsNode(type, data, tar) == [type |-> type, data |-> data, tar |-> tar]
DirNode == FsNode("dir", "", {})
RegNode(data) == FsNode("reg", data, {})
OtherNode == FsNode("other", "", {})
NoNode == FsNode("none", "", {})

NoFiles == [k \in {} |-> NoNode]

IsPrefix(root, q) == Len(root) <= Len(q) /\ SubSeq(q, 1, Len(root)) = root
\* the paths of the tree rooted at root
Subtree(f, root) == {q \in DOMAIN f : IsPrefix(root, q)}
\* the tree rooted at root, as relative path -> type and data
TreeAt(f, root) ==
    {[rel |-> SubSeq(q, Len(root) + 1, Len(q)), type |-> f[q].type, data |-> f[q].data] : q \in Subtree(f, root)}

IsDir(f, parts) == parts = <<>> \/ (parts \in DOMAIN f /\ f[parts].type = "dir")
IsReg(f, parts) == parts \in DOMAIN f /\ f[parts].type = "reg"
Exists(f, parts) == parts = <<>> \/ parts \in DOMAIN f

\* `tar -c -f archive -C parent name`: the entries are relative to parent
TarCreate(f, archive, parent, name) ==
    LET root == Append(parent, name)
    IN  With(f, archive, FsNode("reg", "", {[rel |-> SubSeq(q, Len(parent) + 1, Len(q)), node |-> f[q]] : q \in Subtree(f, root)}))

\* an entry cannot be extracted over a node of the other kind
TarConflict(f, tar, dest) ==
    \E e \in tar : LET q == dest \o e.rel
                   IN  q \in DOMAIN f /\ (f[q].type = "dir") # (e.node.type = "dir")

\* `tar -x -f archive -C dest`: the entries are written under dest, over
\* what is there
TarExtract(f, archive, dest) ==
    LET tar == f[archive].tar
        new == {dest \o e.rel : e \in tar}
    IN  [q \in (DOMAIN f) \cup new |->
            IF q \in new THEN (CHOOSE e \in tar : dest \o e.rel = q).node ELSE f[q]]

\* the names and directories the transfers of the model are about
BaseNames == {"src", "dst"}
ConnNames == {"h1", "web"}
ParentDirs == {<<>>, <<"data">>, <<"srv">>}

\* f"/tmp/{basename}_{connectionWrapper.name}.tar.zst"
ArchivePath(basename, connectionWrapper) ==
    PathOf(<<"tmp", basename \o "_" \o connectionWrapper.name \o ".tar.zst">>, FALSE)

ArchivePaths ==
    {ArchivePath(b, [name |-> c]).parts : b \in BaseNames \cup {""}, c \in ConnNames}

FsShellCommands ==
    {ShellCommand("tar_c", a, d, n) : a \in ArchivePaths, d \in ParentDirs, n \in BaseNames}
    \cup {ShellCommand("tar_x", a, d, "") : a \in ArchivePaths, d \in ParentDirs}
    \cup {ShellCommand("rm_f", a, "", "") : a \in ArchivePaths}

ZstdOption == "'zstd --ultra --long -T0'"

\* the command line of a file system command
FsRender(c) ==
    CASE c.op = "tar_c" -> "tar -c -I " \o ZstdOption \o " -f " \o PartsStr(c.a) \o " -C " \o PartsStr(c.b) \o " " \o c.c
      [] c.op = "tar_x" -> "tar -x -I " \o ZstdOption \o " -f " \o PartsStr(c.a) \o " -C " \o PartsStr(c.b)
      [] c.op = "rm_f"  -> "rm -f " \o PartsStr(c.a)

FsShellTable == {[line |-> FsRender(c), cmd |-> c] : c \in FsShellCommands}

FsParse(line) ==
    IF \E e \in FsShellTable : e.line = line
    THEN (CHOOSE e \in FsShellTable : e.line = line).cmd
    ELSE UnknownCommand

FsOk(f) == [fs |-> f, fb |-> FbResult(0, <<>>, <<>>)]
FsFails(f, code, err) == [fs |-> f, fb |-> FbResult(code, <<>>, <<err, "\n">>)]

\* what the command of dispatch d does on a file system f
FsOutcome(f, d) ==
    LET c == FsParse(d.command)
    IN  CASE c.op = "tar_c" ->
                IF ~Exists(f, Append(c.b, c.c)) THEN FsFails(f, 2, "Cannot stat: No such file or directory")
                ELSE IF ~IsDir(f, SubSeq(c.a, 1, Len(c.a) - 1)) \/ IsDir(f, c.a)
                THEN FsFails(f, 2, "Cannot open")
                ELSE FsOk(TarCreate(f, c.a, c.b, c.c))
          [] c.op = "tar_x" ->
                IF ~IsReg(f, c.a) THEN FsFails(f, 2, "Cannot open: No such file or directory")
                ELSE IF f[c.a].tar = {} THEN FsFails(f, 2, "This does not look like a tar archive")
                ELSE IF ~IsDir(f, c.b) THEN FsFails(f, 2, "Cannot open: No such file or directory")
                ELSE IF TarConflict(f, f[c.a].tar, c.b) THEN FsFails(f, 2, "Cannot open: File exists")
                ELSE FsOk(TarExtract(f, c.a, c.b))
          [] c.op = "rm_f" ->
                IF c.a \in DOMAIN f /\ f[c.a].type = "dir" THEN FsFails(f, 1, "Is a directory")
                ELSE FsOk(Removed(f, {c.a}))
          [] OTHER -> FsFails(f, 127, "command not found")

\* the byte copy of the transfer session, put or get: from a regular file
\* to a path that is no directory, in a directory that exists.  It fails
\* with an exception otherwise.
CanCopy(from, to, source, target) ==
    /\ IsReg(from, source.parts) /\ ~source.slash
    /\ ~target.slash /\ target.parts # <<>>
    /\ ~IsDir(to, target.parts)
    /\ IsDir(to, PathParent(target))
Copied(from, to, source, target) == With(to, target.parts, from[source.parts])

\* stat of a path: the node, or NoNode when nothing is there
Stat(f, p) ==
    IF p.parts = <<>> THEN DirNode
    ELSE IF p.parts \notin DOMAIN f THEN NoNode
    ELSE IF p.slash /\ f[p.parts].type # "dir" THEN NoNode
    ELSE f[p.parts]

\* how a copy of one file ends: the file system written to, or sys.exit(1)
Put(f) == [ok |-> TRUE, fs |-> f]
PutExits(f) == [ok |-> FALSE, fs |-> f]

put_fileMutInto(local, remote, local_path, remote_path) ==
    LET stat == Stat(remote, remote_path)
        target == IF stat.type = "dir"
                  THEN PathOf(Append(remote_path.parts, PathName(local_path)), FALSE)
                  ELSE remote_path
    IN  IF stat.type \notin {"none", "dir", "reg"} THEN PutExits(remote)
        ELSE IF ~CanCopy(local, remote, local_path, target) THEN PutExits(remote)
        ELSE Put(Copied(local, remote, local_path, target))

\* put_file(local_path, remote_path): local is the file system read,
\* remote the one written
put_file(local, remote, local_path, remote_path) ==
    LET stat == Stat(remote, remote_path)
        target == IF stat.type = "dir" /\ EndsWithSlash(remote_path)
                  THEN PathJoin(remote_path, Basename(local_path))
                  ELSE remote_path
    IN  IF stat.type = "dir" /\ ~EndsWithSlash(remote_path) THEN PutExits(remote)
        ELSE IF stat.type \notin {"none", "dir", "reg"} THEN PutExits(remote)
        ELSE IF ~CanCopy(local, remote, local_path, target) THEN PutExits(remote)
        ELSE Put(Copied(local, remote, local_path, target))

\* get_file(remote_path, local_path): remote is the file system read,
\* local the one written
get_file(remote, local, remote_path, local_path) ==
    LET stat == Stat(local, local_path)
        target == IF stat.type = "dir" /\ EndsWithSlash(local_path)
                  THEN PathJoin(local_path, Basename(remote_path))
                  ELSE local_path
    IN  IF stat.type = "dir" /\ ~EndsWithSlash(local_path) THEN PutExits(local)
        ELSE IF stat.type \notin {"none", "dir"} THEN PutExits(local)
        ELSE IF ~CanCopy(remote, local, remote_path, target) THEN PutExits(local)
        ELSE Put(Copied(remote, local, remote_path, target))

\* compress_folder: the command
CompressFolderCmd(folder, archive_name) ==
    ListCommand(<<"tar", "-c", "-I", ZstdOption, "-f", PathStr(archive_name), "-C",
                  PartsStr(PathParent(folder)), PathName(folder)>>)

\* decompress_folder: the directory the archive is unpacked in
DecompressDestination(archive, destination) == PathParent(destination)

\* decompress_folder: the command
DecompressFolderCmd(archive, destination) ==
    ListCommand(<<"tar", "-x", "-I", ZstdOption, "-f", PathStr(archive), "-C",
                  PartsStr(DecompressDestination(archive, destination))>>)

\* the rm -f that ends a directory transfer
RemoveArchiveCmdMutOther(archive) ==
    ListCommand(<<"rm", "-f", PathStr(ArchivePath("", [name |-> "h1"]))>>)
RemoveArchiveCmd(archive) == ListCommand(<<"rm", "-f", PathStr(archive)>>)

(***************************************************************************)
(* State.                                                                  *)
(*   req, cpc, dispatched, proc, outcome, result, printed: one call of     *)
(*   run_single_command: its arguments, where it stands, the calls made on *)
(*   the transport, the real outcome of the launched process, how the call *)
(*   ended, the result object it returned and the lines it printed.        *)
(*   hosts: the state of every machine.                                    *)
(*   conf, obj, ipc: the configuration an interface object is built from,  *)
(*   the object, and where its construction or its create stands.          *)
(*   cmdlog: the calls the running create or get_args made on the          *)
(*   transport.  username, devfile, child: the locals of create.           *)
(*   creates: how each finished create ended and the machines it left.     *)
(*   args: what get_args returned.                                         *)
(*   cmdres: how each command of cmdlog ended.                             *)
(*   fs: the file system of every machine.  xfer, fpc: the arguments of    *)
(*   the running copy_to_remote or copy_from_remote and where it stands.   *)
(*   fslog: the commands, byte copies and removals the copy has made.      *)
(*   pair, ppc, touched: two directory transfers that run concurrently,   *)
(*   where each stands, and the local archive paths each has accessed.    *)
(***************************************************************************)
VARIABLES req, cpc, dispatched, proc, outcome, result, printed
VARIABLES hosts, conf, obj, ipc, cmdlog, username, devfile, child, creates, args
VARIABLES fs, xfer, fpc, fslog
VARIABLES cmdres
VARIABLES pair, ppc, touched
VARIABLES tasks, tpc, pool, completion, gathered
VARIABLES duo, dhosts, dstart
VARIABLES gwconf, gwstack, gwbuilt, gwret, gwpc
VARIABLES imgreq, imgstart, imghost, imgpc, imgpids, imgidx, imglog, imgret

cmdVars == <<req, cpc, dispatched, proc, outcome, result, printed>>
ifVars == <<hosts, conf, obj, ipc, cmdlog, cmdres, username, devfile, child, creates, args>>
fsVars == <<fs, xfer, fpc, fslog>>
pairVars == <<pair, ppc, touched>>
taskVars == <<tasks, tpc, pool, completion, gathered>>
duoVars == <<duo, dhosts, dstart>>
gwVars == <<gwconf, gwstack, gwbuilt, gwret, gwpc>>
imgVars == <<imgreq, imgstart, imghost, imgpc, imgpids, imgidx, imglog, imgret>>
extVars == <<taskVars, duoVars, gwVars, imgVars>>
vars == <<cmdVars, ifVars, fsVars, pairVars, extVars>>

\* the two concurrent directory transfers have not been called
NoTransfer == [direction |-> "none", parent |-> "", source |-> "", destination |-> "", connection |-> None]
PairInit ==
    /\ pair = <<NoTransfer, NoTransfer>>
    /\ ppc = <<"idle", "idle">>
    /\ touched = <<{}, {}>>

\* no transfer is running and the file systems play no part
NoXfer == [direction |-> "none", source |-> PathOf(<<>>, FALSE), destination |-> PathOf(<<>>, FALSE),
           connection |-> None, isdir |-> FALSE]

FsIdle ==
    /\ fs = [m \in Machines |-> NoFiles]
    /\ xfer = NoXfer
    /\ fpc = "idle"
    /\ fslog = <<>>

\* no task has been created
TaskIdle ==
    /\ tasks = <<>>
    /\ tpc = "idle"
    /\ pool = <<>>
    /\ completion = <<>>
    /\ gathered = <<>>

NoRequest ==
    [command |-> StrCommand(""), connectionWrapper |-> None, sudo |-> FALSE,
     no_pipe |-> FALSE, fail_on_returncode |-> TRUE, disown |-> FALSE,
     asynchronous |-> TRUE, no_output |-> FALSE, pty |-> FALSE]

Commands == {StrCommand("true"), ListCommand(<<"echo", "hi">>)}

Requests ==
    [command : Commands, connectionWrapper : Connections, sudo : BOOLEAN,
     no_pipe : BOOLEAN, fail_on_returncode : BOOLEAN, disown : BOOLEAN,
     asynchronous : BOOLEAN, no_output : BOOLEAN, pty : BOOLEAN]

\* what a launched process may do
ExitCodes == 0..MaxExit
Stdouts == {<<>>, <<"out", "\n">>, <<SudoPrompt, " ", "out">>}
Stderrs == {<<>>, <<"err", "\n">>}
ProcessOutcomes ==
    {FbResult(e, o, r) : e \in ExitCodes, o \in Stdouts, r \in Stderrs}

NoProcess == FbResult(-1, <<>>, <<>>)

CmdInit ==
    /\ req = NoRequest
    /\ cpc = "idle"
    /\ dispatched = <<>>
    /\ proc = NoProcess
    /\ outcome = "none"
    /\ result = NoResult
    /\ printed = <<>>

\* the parameters of __run_single_command, by name
InnerArgs(command, connectionWrapper, sudo, no_pipe, fail_on_returncode, disown, no_output, pty) ==
    [command |-> command, connectionWrapper |-> connectionWrapper, sudo |-> sudo,
     no_pipe |-> no_pipe, fail_on_returncode |-> fail_on_returncode, disown |-> disown,
     no_output |-> no_output, pty |-> pty]

\* the positional arguments functools.partial binds for the worker pool
PartialArgsMutSwapped(r) ==
    InnerArgs(r.command, r.connectionWrapper, r.sudo, r.fail_on_returncode, r.no_pipe,
              r.disown, r.no_output, r.pty)
PartialArgs(r) ==
    InnerArgs(r.command, r.connectionWrapper, r.sudo, r.no_pipe, r.fail_on_returncode,
              r.disown, r.no_output, r.pty)

\* the positional arguments of the inline call
InlineArgs(r) ==
    InnerArgs(r.command, r.connectionWrapper, r.sudo, r.no_pipe, r.fail_on_returncode,
              r.disown, r.no_output, r.pty)

\* __run_single_command(r) with the launched process doing fb
RunInner(r, fb) ==
    LET c == Complete(r.command, r.connectionWrapper, r.no_pipe, r.fail_on_returncode, r.disown, r.no_output, fb)
    IN  /\ dispatched' = Append(dispatched, Dispatch(r.command, r.connectionWrapper, r.sudo, r.disown, r.pty))
        /\ proc' = fb
        /\ outcome' = IF c.raised THEN "raised" ELSE "returned"
        /\ result' = IF c.raised THEN NoResult ELSE c.result
        /\ printed' = printed \o c.printed
        /\ cpc' = "done"

\* run_single_command with disown and asynchronous: sys.exit(1)
RunSingleCommandConfigError ==
    /\ cpc = "idle"
    /\ \E r \in Requests :
          /\ ConfigError(r.disown, r.asynchronous)
          /\ req' = r
    /\ cpc' = "exited"
    /\ outcome' = "config_error"
    /\ printed' = Append(printed, "[Error] Cannot use 'disown' with 'asynchronous' mode.")
    /\ UNCHANGED <<dispatched, proc, result>>
    /\ UNCHANGED <<ifVars, fsVars, pairVars, extVars>>

\* run_single_command, asynchronous: the call is handed to the worker pool
RunSingleCommandAsync ==
    /\ cpc = "idle"
    /\ \E r \in Requests :
          /\ ~ConfigError(r.disown, r.asynchronous)
          /\ r.asynchronous
          /\ req' = r
    /\ cpc' = "queued"
    /\ UNCHANGED <<dispatched, proc, outcome, result, printed>>
    /\ UNCHANGED <<ifVars, fsVars, pairVars, extVars>>

\* the worker pool runs __run_single_command and the await returns
ExecutorRun ==
    /\ cpc = "queued"
    /\ \E fb \in ProcessOutcomes : RunInner(PartialArgs(req), fb)
    /\ UNCHANGED req
    /\ UNCHANGED <<ifVars, fsVars, pairVars, extVars>>

\* run_single_command, not asynchronous: __run_single_command runs inline
RunSingleCommandSync ==
    /\ cpc = "idle"
    /\ \E r \in Requests :
          /\ ~ConfigError(r.disown, r.asynchronous)
          /\ ~r.asynchronous
          /\ req' = r
          /\ \E fb \in ProcessOutcomes : RunInner(InlineArgs(r), fb)
    /\ UNCHANGED <<ifVars, fsVars, pairVars, extVars>>

CmdNext ==
    \/ RunSingleCommandConfigError
    \/ RunSingleCommandAsync
    \/ ExecutorRun
    \/ RunSingleCommandSync

(***************************************************************************)
(* The interface provisioner: construction, create and get_args.           *)
(***************************************************************************)
Host(ifaces, nodes, user, next_ifindex) ==
    [ifaces |-> ifaces, nodes |-> nodes, user |-> user, next_ifindex |-> next_ifindex]

NoIfaces == [k \in {} |-> Iface("", FALSE, "", "", "", "", 0)]
NoNodes == [k \in {} |-> ""]

EmptyHost == Host(NoIfaces, NoNodes, LoginUser, 1)

\* what the interface the create is about may be when the run starts
InitialTarget ==
    {NoIfaces,
     Field("x0", Iface("tap", TRUE, OtherIp, "0a:00:00:00:00:0b", "", "", 1)),
     Field("x0", Iface("bridge", TRUE, "", "0a:00:00:00:00:0a", "", "", 1)),
     Field("x0", Iface("phys", TRUE, OtherIp, FactoryMac, "", "", 1))}

\* what the master may be
InitialMaster ==
    {NoIfaces,
     Field("m0", Iface("phys", TRUE, "", FactoryMac, "", "", 2)),
     Field("m0", Iface("bridge", TRUE, "", "0a:00:00:00:00:0a", "", "", 2))}

\* what the child may be: absent, a free tap, a member of a bridge, or a
\* macvlan stacked on the target
InitialChild ==
    {NoIfaces, Field("c0", Iface("tap", FALSE, "", "0a:00:00:00:00:0b", "", "", 3))}
    \cup {Field("c0", Iface("tap", TRUE, "", "0a:00:00:00:00:0b", b, "", 3)) : b \in {"x0", "m0"}}
    \cup {Field("c0", Iface("macvlan", TRUE, "", "0a:00:00:00:00:0b", "", "x0", 3))}

\* a member's master is a bridge, and what is stacked on an interface has it
WellFormed(ifaces) ==
    \A k \in DOMAIN ifaces :
       /\ ifaces[k].master # "" =>
            (ifaces[k].master \in DOMAIN ifaces /\ ifaces[ifaces[k].master].kind = "bridge")
       /\ ifaces[k].link # "" => ifaces[k].link \in DOMAIN ifaces

InitialHosts ==
    {Host(Merge3(x, m, c), NoNodes, u, 4) :
        x \in InitialTarget, m \in InitialMaster, c \in InitialChild, u \in Users}

NoArgs == [status |-> "none", tokens |-> <<>>]

IfIdle ==
    /\ hosts = [m \in Machines |-> EmptyHost]
    /\ conf = [variant |-> "none", interface |-> EmptyDict, connection |-> None]
    /\ obj = NoObject
    /\ ipc = "new"
    /\ cmdlog = <<>>
    /\ cmdres = <<>>
    /\ username = ""
    /\ devfile = ""
    /\ child = 1
    /\ creates = <<>>
    /\ args = NoArgs

\* no pair of concurrent creates has been started
DuoIdle ==
    /\ duo = <<>>
    /\ dhosts = [m \in Machines |-> EmptyHost]
    /\ dstart = [m \in Machines |-> EmptyHost]

\* an absent configuration, and an absent transport connection
NoConfig == [absent |-> TRUE]
NoConnection == [absent |-> TRUE]

\* create_connection_from_config has not been called
GwIdle ==
    /\ gwconf = NoConfig
    /\ gwstack = <<>>
    /\ gwbuilt = <<>>
    /\ gwret = NoConnection
    /\ gwpc = "idle"

\* a machine on which no process holds the image
NoHolders == [holders |-> <<>>, procs |-> [k \in {} |-> [comm |-> "", owner |-> ""]], user |-> LoginUser]

\* validate_image_use has not been called
ImgIdle ==
    /\ imgreq = [connection |-> None, kill_running_vms |-> TRUE]
    /\ imgstart = NoHolders
    /\ imghost = NoHolders
    /\ imgpc = "idle"
    /\ imgpids = <<>>
    /\ imgidx = 1
    /\ imglog = <<>>
    /\ imgret = "none"

\* the tasks, the concurrent creates, the connection factory and the image
\* check are idle
ExtIdle == TaskIdle /\ DuoIdle /\ GwIdle /\ ImgIdle

IfInit ==
    /\ \E h \in InitialHosts :
          /\ WellFormed(h.ifaces)
          /\ hosts = [m \in Machines |-> h]
    /\ conf = [variant |-> "none", interface |-> EmptyDict, connection |-> None]
    /\ obj = NoObject
    /\ ipc = "new"
    /\ cmdlog = <<>>
    /\ cmdres = <<>>
    /\ username = ""
    /\ devfile = ""
    /\ child = 1
    /\ creates = <<>>
    /\ args = NoArgs

\* the constructor of a variant is called on a configuration dict
ConstructIface ==
    /\ ipc = "new"
    /\ \E v \in Variants, c \in IfaceConnections :
         \E d \in Dicts(v) :
            LET b == Construct(v, d, c)
            IN  /\ conf' = [variant |-> v, interface |-> d, connection |-> c]
                /\ obj' = b.object
                /\ ipc' = IF b.ok THEN "constructed" ELSE "exited"
    /\ UNCHANGED <<hosts, cmdlog, cmdres, username, devfile, child, creates, args>>
    /\ UNCHANGED <<cmdVars, fsVars, pairVars, extVars>>

\* one run_single_command of the provisioner (no_pipe=True, not detached):
\* the call made, the machine afterwards, and how the call ended
Exec(o, command, sudo, fail_on_returncode, no_output) ==
    LET d == Dispatch(command, o.connection, sudo, FALSE, FALSE)
    IN  {[d |-> d, host |-> r.host, required |-> fail_on_returncode,
          c |-> Complete(command, o.connection, TRUE, fail_on_returncode, FALSE, no_output, r.fb)] :
            r \in HostOutcomes(hosts[d.machine], d)}

\* how the call e ended: the exit code, and whether a non-zero one raises
Ended(e) == [return_code |-> e.c.result.return_code, required |-> e.required]

\* the call e has run
Ran(e) ==
    /\ hosts' = [hosts EXCEPT ![e.d.machine] = e.host]
    /\ cmdlog' = Append(cmdlog, e.d)
    /\ cmdres' = Append(cmdres, Ended(e))

\* the create ends: "done", "failed" (CommandException) or "sysexit"
Finish(status) ==
    /\ ipc' = status
    /\ creates' = Append(creates, [status |-> status, hosts |-> hosts'])

\* the create goes on with step next unless the call raised
ContinueMutOn(e, next) == ipc' = next /\ UNCHANGED creates
Continue(e, next) ==
    IF e.c.raised THEN Finish("failed")
    ELSE ipc' = next /\ UNCHANGED creates

\* the step of create that follows the existence check and the delete
AfterDeleteMutUp(o) == "up"
AfterDelete(o) == IF o.variant = "Tap" THEN "whoami" ELSE "add"

\* the step of Bridge.create that follows the IP assignment
AfterBridgeIpMutUp(o) == "up"
AfterBridgeIp(o) == IF o.childs # <<>> THEN "child_down" ELSE "up"

\* create is called (again)
StartCreate ==
    /\ ipc \in {"constructed", "done", "failed", "sysexit"}
    /\ obj.variant # "User"
    /\ Len(creates) < 2
    /\ args = NoArgs
    /\ ipc' = "check"
    /\ cmdlog' = <<>>
    /\ cmdres' = <<>>
    /\ username' = ""
    /\ devfile' = ""
    /\ child' = 1
    /\ UNCHANGED <<hosts, conf, obj, creates, args>>
    /\ UNCHANGED <<cmdVars, fsVars, pairVars, extVars>>

\* User.create (again): nothing is run on any machine
UserCreate ==
    /\ ipc \in {"constructed", "done"}
    /\ obj.variant = "User"
    /\ Len(creates) < 2
    /\ args = NoArgs
    /\ ipc' = "done"
    /\ creates' = Append(creates, [status |-> "done", hosts |-> hosts])
    /\ cmdlog' = <<>>
    /\ cmdres' = <<>>
    /\ UNCHANGED <<hosts, conf, obj, username, devfile, child, args>>
    /\ UNCHANGED <<cmdVars, fsVars, pairVars, extVars>>

\* check_iface: the interface exists when `ip link show` exits 0
CheckIface ==
    /\ ipc = "check"
    /\ \E e \in Exec(obj, CheckIfaceCmd(obj.name), FALSE, FALSE, TRUE) :
          /\ Ran(e)
          /\ Continue(e, IF IfaceExists(e.c.result) THEN "delete" ELSE AfterDelete(obj))
    /\ UNCHANGED <<conf, obj, username, devfile, child, args>>
    /\ UNCHANGED <<cmdVars, fsVars, pairVars, extVars>>

\* delete_iface
DeleteIface ==
    /\ ipc = "delete"
    /\ \E e \in Exec(obj, DeleteIfaceCmd(obj.name), TRUE, TRUE, TRUE) :
          /\ Ran(e)
          /\ Continue(e, AfterDelete(obj))
    /\ UNCHANGED <<conf, obj, username, devfile, child, args>>
    /\ UNCHANGED <<cmdVars, fsVars, pairVars, extVars>>

\* get_username, in Tap.create and MacVtap.create
GetUsername ==
    /\ ipc = "whoami"
    /\ \E e \in Exec(obj, GetUsernameCmd, FALSE, TRUE, TRUE) :
          /\ Ran(e)
          /\ Continue(e, IF obj.variant = "Tap" THEN "add" ELSE "cat_ifindex")
          /\ username' = IF e.c.raised THEN username ELSE Concat(Strip(e.c.result.stdout))
    /\ UNCHANGED <<conf, obj, devfile, child, args>>
    /\ UNCHANGED <<cmdVars, fsVars, pairVars, extVars>>

\* Bridge.create: the bridge device
AddBridge ==
    /\ ipc = "add" /\ obj.variant = "Bridge"
    /\ \E e \in Exec(obj, BridgeAddCmd(obj), TRUE, TRUE, FALSE) :
          /\ Ran(e)
          /\ Continue(e, IF obj.ip_address # "" THEN "ip" ELSE AfterBridgeIp(obj))
    /\ UNCHANGED <<conf, obj, username, devfile, child, args>>
    /\ UNCHANGED <<cmdVars, fsVars, pairVars, extVars>>

\* Tap.create: the tap device, owned by the invoking user
AddTap ==
    /\ ipc = "add" /\ obj.variant = "Tap"
    /\ \E e \in Exec(obj, TapAddCmd(obj, username), TRUE, TRUE, TRUE) :
          /\ Ran(e)
          /\ Continue(e, IF obj.ip_address # "" THEN "ip"
                         ELSE IF obj.master # "" THEN "master" ELSE "up")
    /\ UNCHANGED <<conf, obj, username, devfile, child, args>>
    /\ UNCHANGED <<cmdVars, fsVars, pairVars, extVars>>

\* MacVtap.create: the macvtap device
AddMacVtap ==
    /\ ipc = "add" /\ obj.variant = "MacVtap"
    /\ \E e \in Exec(obj, MacVtapAddCmd(obj), TRUE, TRUE, FALSE) :
          /\ Ran(e)
          /\ Continue(e, "mac")
    /\ UNCHANGED <<conf, obj, username, devfile, child, args>>
    /\ UNCHANGED <<cmdVars, fsVars, pairVars, extVars>>

\* MacVlan.create: the macvlan device
AddMacVlan ==
    /\ ipc = "add" /\ obj.variant = "MacVlan"
    /\ \E e \in Exec(obj, MacVlanAddCmd(obj), TRUE, TRUE, TRUE) :
          /\ Ran(e)
          /\ Continue(e, "ip")
    /\ UNCHANGED <<conf, obj, username, devfile, child, args>>
    /\ UNCHANGED <<cmdVars, fsVars, pairVars, extVars>>

\* set_iface_ip, in Bridge.create, Tap.create and MacVlan.create
SetIfaceIp ==
    /\ ipc = "ip"
    /\ \E e \in Exec(obj, SetIfaceIpCmd(obj.name, obj.ip_address), TRUE, TRUE, TRUE) :
          /\ Ran(e)
          /\ Continue(e, IF obj.variant = "Bridge" THEN AfterBridgeIp(obj) ELSE "up")
    /\ UNCHANGED <<conf, obj, username, devfile, child, args>>
    /\ UNCHANGED <<cmdVars, fsVars, pairVars, extVars>>

\* Tap.create: the tap joins its master
SetTapMaster ==
    /\ ipc = "master"
    /\ \E e \in Exec(obj, SetMasterCmd(obj.name, obj.master), TRUE, TRUE, TRUE) :
          /\ Ran(e)
          /\ Continue(e, "up")
    /\ UNCHANGED <<conf, obj, username, devfile, child, args>>
    /\ UNCHANGED <<cmdVars, fsVars, pairVars, extVars>>

\* set_iface_mac, in MacVtap.create
SetIfaceMac ==
    /\ ipc = "mac"
    /\ \E e \in Exec(obj, SetIfaceMacCmd(obj.name, obj.mac_address), TRUE, TRUE, TRUE) :
          /\ Ran(e)
          /\ Continue(e, "whoami")
    /\ UNCHANGED <<conf, obj, username, devfile, child, args>>
    /\ UNCHANGED <<cmdVars, fsVars, pairVars, extVars>>

\* get_devicefile_name, first command: the interface index
CatIfindex ==
    /\ ipc = "cat_ifindex"
    /\ \E e \in Exec(obj, CatIfindexCmd(obj.name), FALSE, TRUE, FALSE) :
          /\ Ran(e)
          /\ Continue(e, "ls_node")
          /\ devfile' = IF e.c.raised THEN devfile ELSE IfacePath(e.c.result.stdout)
    /\ UNCHANGED <<conf, obj, username, child, args>>
    /\ UNCHANGED <<cmdVars, fsVars, pairVars, extVars>>

\* get_devicefile_name, second command: sys.exit(1) unless the node exists
LsNode ==
    /\ ipc = "ls_node"
    /\ \E e \in Exec(obj, LsNodeCmd(devfile), FALSE, FALSE, FALSE) :
          /\ Ran(e)
          /\ IF e.c.result.return_code # 0 THEN Finish("sysexit")
             ELSE ipc' = "chown" /\ UNCHANGED creates
    /\ UNCHANGED <<conf, obj, username, devfile, child, args>>
    /\ UNCHANGED <<cmdVars, fsVars, pairVars, extVars>>

\* MacVtap.create: the device node goes to the invoking user
Chown ==
    /\ ipc = "chown"
    /\ \E e \in Exec(obj, ChownCmd(username, devfile), TRUE, TRUE, FALSE) :
          /\ Ran(e)
          /\ Continue(e, "up")
    /\ UNCHANGED <<conf, obj, username, devfile, child, args>>
    /\ UNCHANGED <<cmdVars, fsVars, pairVars, extVars>>

\* Bridge.create, per child: set_iface_down
ChildDown ==
    /\ ipc = "child_down"
    /\ \E e \in Exec(obj, SetIfaceDownCmd(obj.childs[child]), TRUE, TRUE, TRUE) :
          /\ Ran(e)
          /\ Continue(e, "child_master")
    /\ UNCHANGED <<conf, obj, username, devfile, child, args>>
    /\ UNCHANGED <<cmdVars, fsVars, pairVars, extVars>>

\* Bridge.create, per child: the child joins the bridge
ChildMaster ==
    /\ ipc = "child_master"
    /\ \E e \in Exec(obj, SetMasterCmd(obj.childs[child], obj.name), TRUE, TRUE, FALSE) :
          /\ Ran(e)
          /\ Continue(e, "child_up")
    /\ UNCHANGED <<conf, obj, username, devfile, child, args>>
    /\ UNCHANGED <<cmdVars, fsVars, pairVars, extVars>>

\* Bridge.create, per child: set_iface_up, then the next child
ChildUp ==
    /\ ipc = "child_up"
    /\ \E e \in Exec(obj, SetIfaceUpCmd(obj.childs[child]), TRUE, TRUE, TRUE) :
          /\ Ran(e)
          /\ Continue(e, IF child < Len(obj.childs) THEN "child_down" ELSE "up")
          /\ child' = IF e.c.raised THEN child ELSE child + 1
    /\ UNCHANGED <<conf, obj, username, devfile, args>>
    /\ UNCHANGED <<cmdVars, fsVars, pairVars, extVars>>

\* set_iface_up on the interface itself: the last step of every create
SetIfaceUp ==
    /\ ipc = "up"
    /\ \E e \in Exec(obj, SetIfaceUpCmd(obj.name), TRUE, TRUE, TRUE) :
          /\ Ran(e)
          /\ Finish(IF e.c.raised THEN "failed" ELSE "done")
    /\ UNCHANGED <<conf, obj, username, devfile, child, args>>
    /\ UNCHANGED <<cmdVars, fsVars, pairVars, extVars>>

\* Tap.get_args: no command is run
GetArgsTap ==
    /\ ipc \in {"constructed", "done"} /\ obj.variant = "Tap"
    /\ args = NoArgs
    /\ \E fd \in Fds : args' = [status |-> "returned", tokens |-> TapGetArgs(obj, fd)]
    /\ UNCHANGED <<hosts, conf, obj, ipc, cmdlog, cmdres, username, devfile, child, creates>>
    /\ UNCHANGED <<cmdVars, fsVars, pairVars, extVars>>

\* MacVtap.get_args: get_devicefile_name runs its two commands, then the
\* tokens are built
GetArgsMacVtap ==
    /\ ipc \in {"constructed", "done"} /\ obj.variant = "MacVtap"
    /\ args = NoArgs
    /\ \E fd \in Fds :
       \E e1 \in Exec(obj, CatIfindexCmd(obj.name), FALSE, TRUE, FALSE) :
          IF e1.c.raised
          THEN /\ args' = [status |-> "raised", tokens |-> <<>>]
               /\ cmdlog' = Append(cmdlog, e1.d)
               /\ cmdres' = Append(cmdres, Ended(e1))
          ELSE \E e2 \in Exec(obj, LsNodeCmd(IfacePath(e1.c.result.stdout)), FALSE, FALSE, FALSE) :
                  /\ cmdlog' = cmdlog \o <<e1.d, e2.d>>
                  /\ cmdres' = cmdres \o <<Ended(e1), Ended(e2)>>
                  /\ args' = IF e2.c.result.return_code # 0
                             THEN [status |-> "sysexit", tokens |-> <<>>]
                             ELSE [status |-> "returned",
                                   tokens |-> MacVtapGetArgs(obj, fd, IfacePath(e1.c.result.stdout))]
    /\ UNCHANGED <<hosts, conf, obj, ipc, username, devfile, child, creates>>
    /\ UNCHANGED <<cmdVars, fsVars, pairVars, extVars>>

\* User.get_args: no command is run
GetArgsUser ==
    /\ ipc \in {"constructed", "done"} /\ obj.variant = "User"
    /\ args = NoArgs
    /\ args' = [status |-> "returned", tokens |-> UserGetArgs(obj)]
    /\ UNCHANGED <<hosts, conf, obj, ipc, cmdlog, cmdres, username, devfile, child, creates>>
    /\ UNCHANGED <<cmdVars, fsVars, pairVars, extVars>>

IfNext ==
    \/ ConstructIface
    \/ StartCreate
    \/ UserCreate
    \/ GetArgsUser
    \/ CheckIface
    \/ DeleteIface
    \/ GetUsername
    \/ AddBridge
    \/ AddTap
    \/ AddMacVtap
    \/ AddMacVlan
    \/ SetIfaceIp
    \/ SetTapMaster
    \/ SetIfaceMac
    \/ CatIfindex
    \/ LsNode
    \/ Chown
    \/ ChildDown
    \/ ChildMaster
    \/ ChildUp
    \/ SetIfaceUp
    \/ GetArgsTap
    \/ GetArgsMacVtap

\* the configuration dicts get_args is studied on: every queue count
ArgsDicts(variant) ==
    {Merge(Merge3(Field("name", "x0"), Field("mac_address", ConfiguredMac), q), Merge(v, m)) :
        q \in Optional("queue_count", 0..MaxQueueCount),
        v \in Optional("vhost", {TRUE}),
        m \in IF variant = "Tap" THEN {Field("ip_address", ConfiguredIp)} ELSE {Field("master", "m0")}}

\* a machine on which the macvtap x0 has been created on m0, and one on
\* which it has not
ArgsHosts ==
    {Host(Merge(Field("x0", Iface("macvtap", TRUE, "", ConfiguredMac, "", "m0", 4)),
                Field("m0", Iface("phys", TRUE, "", FactoryMac, "", "", 2))),
          Field(DevNode(4), LoginUser), LoginUser, 5),
     Host(Field("m0", Iface("phys", TRUE, "", FactoryMac, "", "", 2)), NoNodes, LoginUser, 5)}

ArgsInit ==
    /\ \E h \in ArgsHosts : hosts = [m \in Machines |-> h]
    /\ \E v \in {"Tap", "MacVtap"}, c \in IfaceConnections :
         \E d \in ArgsDicts(v) :
            /\ conf = [variant |-> v, interface |-> d, connection |-> c]
            /\ obj = Construct(v, d, c).object
    /\ ipc = "constructed"
    /\ cmdlog = <<>>
    /\ cmdres = <<>>
    /\ username = ""
    /\ devfile = ""
    /\ child = 1
    /\ creates = <<>>
    /\ args = NoArgs

ArgsNext ==
    \/ GetArgsTap
    \/ GetArgsMacVtap

\* the initial states of SpecArgs
InitArgs == CmdInit /\ ArgsInit /\ FsIdle /\ PairInit /\ ExtIdle

\* get_args alone, on interface objects of every queue count
SpecArgs == InitArgs /\ [][ArgsNext]_vars

\* the initial states of SpecIface
InitIface == CmdInit /\ IfInit /\ FsIdle /\ PairInit /\ ExtIdle

\* the provisioner: an interface object is constructed, created up to twice
\* and asked for its hypervisor arguments
SpecIface == InitIface /\ [][IfNext]_vars

(***************************************************************************)
(* The file transfer: copy_to_remote and copy_from_remote.                 *)
(***************************************************************************)
Files(pairs) == [q \in {pr[1] : pr \in pairs} |-> (CHOOSE pr \in pairs : pr[1] = q)[2]]

\* what every machine holds: the directories, a file and a device
BaseFiles ==
    Files({<< <<"tmp">>, DirNode >>, << <<"data">>, DirNode >>, << <<"srv">>, DirNode >>,
           << <<"data", "file">>, RegNode("F") >>})

\* the directory /data/src the transfers read
SourceTrees ==
    {Files({<< <<"data", "src">>, DirNode >>}),
     Files({<< <<"data", "src">>, DirNode >>, << <<"data", "src", "a">>, RegNode("A") >>}),
     Files({<< <<"data", "src">>, DirNode >>, << <<"data", "src", "a">>, RegNode("A") >>,
            << <<"data", "src", "sub">>, DirNode >>, << <<"data", "src", "sub", "b">>, RegNode("B") >>})}

\* what is under /srv before the transfer
DestinationTrees ==
    {NoFiles,
     Files({<< <<"srv", "dst">>, DirNode >>, << <<"srv", "dst", "old">>, RegNode("O") >>}),
     Files({<< <<"srv", "src">>, DirNode >>, << <<"srv", "src", "a">>, RegNode("Z") >>}),
     Files({<< <<"srv", "src">>, DirNode >>, << <<"srv", "src", "old">>, RegNode("O") >>}),
     Files({<< <<"srv", "dst">>, RegNode("R") >>, << <<"srv", "file">>, OtherNode >>})}

Sources ==
    {PathOf(<<"data", "src">>, FALSE), PathOf(<<"data", "file">>, FALSE), PathOf(<<"data", "missing">>, FALSE)}
Destinations ==
    {PathOf(<<"srv", "src">>, FALSE), PathOf(<<"srv", "dst">>, FALSE), PathOf(<<"srv", "dst">>, TRUE),
     PathOf(<<"srv", "file">>, FALSE)}

\* the handles a transfer is made through
FsConnections == {ConnectionWrapper("h1", ""), ConnectionWrapper("h1", "web")}

FsInit ==
    /\ \E t \in SourceTrees, d \in DestinationTrees :
          fs = [m \in Machines |-> Merge3(BaseFiles, t, d)]
    /\ xfer = NoXfer
    /\ fpc = "idle"
    /\ fslog = <<>>

Local == "localhost"
Remote == xfer.connection.host

\* the two temporary archives of the running directory transfer
SourceArchive == ArchivePath(PathName(xfer.source), xfer.connection)
DestinationArchive == ArchivePath(PathName(xfer.destination), xfer.connection)

LogEntry(op, machine, what) == [op |-> op, machine |-> machine, what |-> what]

\* one run_single_command of the transfer (no_pipe=True, no_output=True)
FsExec(command, connectionWrapper) ==
    LET d == Dispatch(command, connectionWrapper, FALSE, FALSE, FALSE)
        o == FsOutcome(fs[d.machine], d)
    IN  [d |-> d, fs |-> o.fs, c |-> Complete(command, connectionWrapper, TRUE, TRUE, FALSE, TRUE, o.fb)]

\* the command e has run: the transfer goes on with next unless it raised
FsRan(e, next) ==
    /\ fs' = [fs EXCEPT ![e.d.machine] = e.fs]
    /\ fslog' = Append(fslog, LogEntry("run", e.d.machine, e.d.command))
    /\ fpc' = IF e.c.raised THEN "failed" ELSE next

\* the byte copy r into the file system of machine m has been tried
FsCopied(r, op, m, what, next) ==
    /\ fs' = [fs EXCEPT ![m] = r.fs]
    /\ fslog' = Append(fslog, LogEntry(op, m, what))
    /\ fpc' = IF r.ok THEN next ELSE "sysexit"

\* copy_to_remote up to its first await: the kind of the source decides
CopyToRemoteStart ==
    /\ fpc = "idle"
    /\ \E s \in Sources, d \in Destinations, c \in FsConnections :
          LET kind == Stat(fs[Local], s).type
          IN  /\ xfer' = [direction |-> "to", source |-> s, destination |-> d,
                          connection |-> c, isdir |-> kind = "dir"]
              /\ fpc' = IF kind = "dir" THEN "to_compress"
                        ELSE IF kind = "reg" THEN "to_put_file" ELSE "sysexit"
    /\ UNCHANGED <<fs, fslog>>
    /\ UNCHANGED <<cmdVars, ifVars, pairVars, extVars>>

\* copy_to_remote: compress_folder on the local machine
ToCompress ==
    /\ fpc = "to_compress"
    /\ FsRan(FsExec(CompressFolderCmd(xfer.source, SourceArchive), None), "to_put")
    /\ UNCHANGED xfer
    /\ UNCHANGED <<cmdVars, ifVars, pairVars, extVars>>

\* copy_to_remote: the archive is put on the remote machine
ToPut ==
    /\ fpc = "to_put"
    /\ FsCopied(put_file(fs[Local], fs[Remote], SourceArchive, DestinationArchive),
                "put", Remote, PathStr(DestinationArchive), "to_decompress")
    /\ UNCHANGED xfer
    /\ UNCHANGED <<cmdVars, ifVars, pairVars, extVars>>

\* copy_to_remote: decompress on the remote machine
ToDecompress ==
    /\ fpc = "to_decompress"
    /\ FsRan(FsExec(DecompressFolderCmd(DestinationArchive, xfer.destination), xfer.connection), "to_remove")
    /\ UNCHANGED xfer
    /\ UNCHANGED <<cmdVars, ifVars, pairVars, extVars>>

\* copy_to_remote: os.remove(source_archive)
ToRemove ==
    /\ fpc = "to_remove"
    /\ fs' = [fs EXCEPT ![Local] = Removed(fs[Local], {SourceArchive.parts})]
    /\ fslog' = Append(fslog, LogEntry("os.remove", Local, PathStr(SourceArchive)))
    /\ fpc' = IF SourceArchive.parts \in DOMAIN fs[Local] THEN "to_rm" ELSE "failed"
    /\ UNCHANGED xfer
    /\ UNCHANGED <<cmdVars, ifVars, pairVars, extVars>>

\* copy_to_remote: rm -f destination_archive on the remote machine
ToRm ==
    /\ fpc = "to_rm"
    /\ FsRan(FsExec(RemoveArchiveCmd(DestinationArchive), xfer.connection), "done")
    /\ UNCHANGED xfer
    /\ UNCHANGED <<cmdVars, ifVars, pairVars, extVars>>

\* copy_to_remote of a file: put_file
ToPutFile ==
    /\ fpc = "to_put_file"
    /\ FsCopied(put_file(fs[Local], fs[Remote], xfer.source, xfer.destination),
                "put", Remote, PathStr(xfer.destination), "done")
    /\ UNCHANGED xfer
    /\ UNCHANGED <<cmdVars, ifVars, pairVars, extVars>>

\* copy_from_remote up to its first await: remote_stat of the source decides
CopyFromRemoteStart ==
    /\ fpc = "idle"
    /\ \E s \in Sources, d \in Destinations, c \in FsConnections :
          LET kind == Stat(fs[c.host], s).type
          IN  /\ xfer' = [direction |-> "from", source |-> s, destination |-> d,
                          connection |-> c, isdir |-> kind = "dir"]
              /\ fpc' = IF kind = "dir" THEN "from_compress"
                        ELSE IF kind = "reg" THEN "from_get_file" ELSE "sysexit"
    /\ UNCHANGED <<fs, fslog>>
    /\ UNCHANGED <<cmdVars, ifVars, pairVars, extVars>>

\* copy_from_remote: compress_folder on the remote machine
FromCompress ==
    /\ fpc = "from_compress"
    /\ FsRan(FsExec(CompressFolderCmd(xfer.source, SourceArchive), xfer.connection), "from_get")
    /\ UNCHANGED xfer
    /\ UNCHANGED <<cmdVars, ifVars, pairVars, extVars>>

\* copy_from_remote: the archive is fetched to the local machine
FromGet ==
    /\ fpc = "from_get"
    /\ FsCopied(get_file(fs[Remote], fs[Local], SourceArchive, DestinationArchive),
                "get", Local, PathStr(DestinationArchive), "from_decompress")
    /\ UNCHANGED xfer
    /\ UNCHANGED <<cmdVars, ifVars, pairVars, extVars>>

\* copy_from_remote: decompress on the local machine
FromDecompress ==
    /\ fpc = "from_decompress"
    /\ FsRan(FsExec(DecompressFolderCmd(DestinationArchive, xfer.destination), None), "from_remove")
    /\ UNCHANGED xfer
    /\ UNCHANGED <<cmdVars, ifVars, pairVars, extVars>>

\* copy_from_remote: os.remove(destination_archive)
FromRemove ==
    /\ fpc = "from_remove"
    /\ fs' = [fs EXCEPT ![Local] = Removed(fs[Local], {DestinationArchive.parts})]
    /\ fslog' = Append(fslog, LogEntry("os.remove", Local, PathStr(DestinationArchive)))
    /\ fpc' = IF DestinationArchive.parts \in DOMAIN fs[Local] THEN "from_rm" ELSE "failed"
    /\ UNCHANGED xfer
    /\ UNCHANGED <<cmdVars, ifVars, pairVars, extVars>>

\* copy_from_remote: rm -f source_archive on the remote machine
FromRm ==
    /\ fpc = "from_rm"
    /\ FsRan(FsExec(RemoveArchiveCmd(SourceArchive), xfer.connection), "done")
    /\ UNCHANGED xfer
    /\ UNCHANGED <<cmdVars, ifVars, pairVars, extVars>>

\* copy_from_remote of a file: get_file
FromGetFile ==
    /\ fpc = "from_get_file"
    /\ FsCopied(get_file(fs[Remote], fs[Local], xfer.source, xfer.destination),
                "get", Local, PathStr(xfer.destination), "done")
    /\ UNCHANGED xfer
    /\ UNCHANGED <<cmdVars, ifVars, pairVars, extVars>>

FsNext ==
    \/ CopyToRemoteStart
    \/ ToCompress
    \/ ToPut
    \/ ToDecompress
    \/ ToRemove
    \/ ToRm
    \/ ToPutFile
    \/ CopyFromRemoteStart
    \/ FromCompress
    \/ FromGet
    \/ FromDecompress
    \/ FromRemove
    \/ FromRm
    \/ FromGetFile

\* the initial states of SpecFs
InitFs == CmdInit /\ IfIdle /\ FsInit /\ PairInit /\ ExtIdle

\* the file transfer: one copy_to_remote or copy_from_remote
SpecFs == InitFs /\ [][FsNext]_vars

(***************************************************************************)
(* Two directory transfers run concurrently on one local machine.  Each    *)
(* is the straight sequence of copy_to_remote or copy_from_remote; what    *)
(* is recorded is every access to an archive in the local /tmp.            *)
(***************************************************************************)
\* the names of the directories and of the connections of the two transfers
PairBaseNames == {"src", "a", "a_b"}
PairConnections == {ConnectionWrapper("h1", n) : n \in {"web", "b_web"}}

\* the directory the source and the destination directory of a transfer are in
PairParents == {"x", "z"}

\* a directory transfer: /<parent>/<source> to /<parent>/<destination>
PairTransfers ==
    [direction : {"to", "from"}, parent : PairParents, source : PairBaseNames,
     destination : PairBaseNames, connection : PairConnections]

\* the archive a transfer keeps in the local /tmp: source_archive of
\* copy_to_remote, destination_archive of copy_from_remote
LocalArchive(t) ==
    IF t.direction = "to" THEN PathStr(ArchivePath(t.source, t.connection))
    ELSE PathStr(ArchivePath(t.destination, t.connection))

\* the archive a transfer keeps in /tmp of the remote machine:
\* destination_archive of copy_to_remote, source_archive of copy_from_remote
RemoteArchive(t) ==
    IF t.direction = "to" THEN PathStr(ArchivePath(t.destination, t.connection))
    ELSE PathStr(ArchivePath(t.source, t.connection))

Access(path, how) == [path |-> path, how |-> how]

\* transfer i goes on to step next; it has accessed its local archive if
\* how is not ""
PairAdvance(i, next, how) ==
    /\ ppc' = [ppc EXCEPT ![i] = next]
    /\ touched' = IF how = "" THEN touched
                  ELSE [touched EXCEPT ![i] = @ \cup {Access(LocalArchive(pair[i]), how)}]
    /\ UNCHANGED pair
    /\ UNCHANGED <<cmdVars, ifVars, fsVars, extVars>>

\* copy_to_remote or copy_from_remote is called on a directory
PairStart ==
    \E i \in {1, 2}, t \in PairTransfers :
       /\ ppc[i] = "idle"
       /\ pair' = [pair EXCEPT ![i] = t]
       /\ ppc' = [ppc EXCEPT ![i] = "compress"]
       /\ UNCHANGED touched
       /\ UNCHANGED <<cmdVars, ifVars, fsVars, extVars>>

\* compress_folder: copy_to_remote writes the local archive
PairCompress ==
    \E i \in {1, 2} :
       /\ ppc[i] = "compress"
       /\ PairAdvance(i, "transfer", IF pair[i].direction = "to" THEN "write" ELSE "")

\* put_file reads the local archive, get_file writes it
PairTransfer ==
    \E i \in {1, 2} :
       /\ ppc[i] = "transfer"
       /\ PairAdvance(i, "decompress", IF pair[i].direction = "to" THEN "read" ELSE "write")

\* decompress: copy_from_remote reads the local archive
PairDecompress ==
    \E i \in {1, 2} :
       /\ ppc[i] = "decompress"
       /\ PairAdvance(i, "remove", IF pair[i].direction = "to" THEN "" ELSE "read")

\* os.remove of the local archive
PairRemove ==
    \E i \in {1, 2} :
       /\ ppc[i] = "remove"
       /\ PairAdvance(i, "rm", "delete")

\* rm -f of the remote archive: the transfer returns
PairRm ==
    \E i \in {1, 2} :
       /\ ppc[i] = "rm"
       /\ PairAdvance(i, "done", "")

PairNext ==
    \/ PairStart
    \/ PairCompress
    \/ PairTransfer
    \/ PairDecompress
    \/ PairRemove
    \/ PairRm

\* the initial states of SpecPair
InitPair == CmdInit /\ IfIdle /\ FsIdle /\ PairInit /\ ExtIdle

\* two concurrent directory transfers
SpecPair == InitPair /\ [][PairNext]_vars

\* the initial states of SpecCmd
InitCmd == CmdInit /\ IfIdle /\ FsIdle /\ PairInit /\ ExtIdle

\* the command executor alone: one call of run_single_command
SpecCmd == InitCmd /\ [][CmdNext]_vars

(***************************************************************************)
(* Properties of the command executor, checked under SpecCmd.              *)
(***************************************************************************)
\* the last call made on the transport
LastDispatch == dispatched[Len(dispatched)]

\* C3: a call with both disown and asynchronous set ends in the
\* configuration error and no command has been dispatched to any machine,
\* whatever the other arguments are.
C3_ConfigErrorBeforeDispatch ==
    (cpc # "idle" /\ req.disown /\ req.asynchronous)
        => (outcome = "config_error" /\ cpc = "exited" /\ dispatched = <<>>)

C3_Witness ==
    /\ outcome = "config_error"
    /\ req.sudo /\ req.connectionWrapper # None /\ ~req.fail_on_returncode

\* C4: a command that is not detached raises CommandException exactly when
\* the process exits non-zero and fail_on_returncode is set; otherwise it
\* returns a result that carries the exit code of the process.
C4_RaiseIffNonZeroAndFail ==
    (cpc = "done" /\ ~req.disown)
        => /\ (outcome = "raised") <=> (proc.exited # 0 /\ req.fail_on_returncode)
           /\ (outcome # "raised")
                => (outcome = "returned" /\ result.return_code = proc.exited)

C4_Witness ==
    /\ cpc = "done" /\ ~req.disown
    /\ proc.exited = 2 /\ ~req.fail_on_returncode
    /\ outcome = "returned" /\ result.return_code = 2

\* C5: a detached command never raises CommandException, and once it has
\* been launched the call returns exit code 0 and empty stdout and stderr,
\* whatever the launched process did and whatever fail_on_returncode is.
C5_DetachedSyntheticSuccess ==
    req.disown
        => /\ outcome # "raised"
           /\ (cpc = "done")
                => /\ outcome = "returned"
                   /\ result.return_code = 0
                   /\ result.stdout = <<>>
                   /\ result.stderr = <<>>

C5_Witness ==
    /\ cpc = "done" /\ req.disown /\ req.fail_on_returncode
    /\ proc.exited # 0 /\ proc.stdout # <<>> /\ proc.stderr # <<>>
    /\ outcome = "returned"

\* C6: on every transport, a command asked with sudo goes through the
\* privilege-escalation call and a command asked without it through the
\* plain call.
C6_SudoRoutedOnEveryTransport ==
    (cpc = "done")
        => /\ req.sudo => LastDispatch.method = "sudo"
           /\ ~req.sudo => LastDispatch.method \in {"run", "local"}

\* C7: a command whose handle is None is dispatched once, on the local
\* machine through the local call, and a returned result names "localhost".
C7_NoneRunsLocally ==
    (cpc = "done" /\ req.connectionWrapper = None)
        => /\ Len(dispatched) = 1
           /\ \A i \in 1..Len(dispatched) :
                 /\ dispatched[i].machine = "localhost"
                 /\ dispatched[i].method = "local"
           /\ (outcome = "returned") => result.host = "localhost"

C7_Witness ==
    /\ cpc = "done" /\ req.connectionWrapper = None
    /\ outcome = "returned" /\ result.host = "localhost"
    /\ dispatched # <<>>

(***************************************************************************)
(* Properties of the interface provisioner, checked under SpecIface.       *)
(***************************************************************************)
\* what C1 compares of an interface, with and without its MAC address
IfaceView(i) == [kind |-> i.kind, ip |-> i.ip, mac |-> i.mac, master |-> i.master, up |-> i.up]
IfaceViewNoMac(i) == [kind |-> i.kind, ip |-> i.ip, master |-> i.master, up |-> i.up]

\* the interface state of all machines: which interfaces exist and their view
HostsView(hs) == [m \in Machines |-> [k \in DOMAIN hs[m].ifaces |-> IfaceView(hs[m].ifaces[k])]]
HostsViewNoMac(hs) == [m \in Machines |-> [k \in DOMAIN hs[m].ifaces |-> IfaceViewNoMac(hs[m].ifaces[k])]]

\* the machine the object is provisioned on
ObjMachine == TargetMachine(obj.connection)

\* C1 as claimed: after the second of two creates in a row the interface
\* state of the machines (existence, kind, IP, MAC, bridge membership,
\* up/down) is the one the first create left.
C1_TwiceAsOnce_Claimed ==
    Len(creates) = 2 => HostsView(creates[2].hosts) = HostsView(creates[1].hosts)

\* C1 as amended: after the second of two creates in a row, existence,
\* kind, IP, bridge membership and up/down of every interface are as the
\* first create left them, the two creates ended alike, and the MAC address
\* of the interface is the same when the variant is MacVtap and the create
\* completed.
C1_TwiceAsOnce ==
    Len(creates) = 2 =>
        /\ HostsViewNoMac(creates[2].hosts) = HostsViewNoMac(creates[1].hosts)
        /\ creates[2].status = creates[1].status
        /\ (obj.variant = "MacVtap" /\ creates[1].status = "done") =>
              creates[2].hosts[ObjMachine].ifaces[obj.name].mac
                  = creates[1].hosts[ObjMachine].ifaces[obj.name].mac

C1_Witness ==
    /\ Len(creates) = 2
    /\ creates[1].status = "done" /\ creates[2].status = "done"
    /\ obj.variant = "Bridge" /\ obj.childs # <<>>
    /\ creates[2].hosts[ObjMachine].ifaces["c0"].master = "x0"
    /\ creates[2].hosts[ObjMachine].ifaces["x0"].ifindex
          # creates[1].hosts[ObjMachine].ifaces["x0"].ifindex

\* exactly one of the keys ip_address and master is in the dict
ExactlyOneOfIpAndMaster(interface) ==
    (Has(interface, "ip_address") /\ ~Has(interface, "master"))
    \/ (Has(interface, "master") /\ ~Has(interface, "ip_address"))

\* C2: a Tap object exists only if exactly one of ip_address and master is
\* set (the key is in the configuration dict); with both or neither the
\* constructor has exited and no command has been dispatched.
C2_TapExactlyOneOfIpAndMaster ==
    (conf.variant = "Tap" /\ ipc # "new")
        => /\ (obj # NoObject) => ExactlyOneOfIpAndMaster(conf.interface)
           /\ ~ExactlyOneOfIpAndMaster(conf.interface)
                => (ipc = "exited" /\ obj = NoObject /\ cmdlog = <<>> /\ creates = <<>>)

C2_Witness ==
    /\ conf.variant = "Tap" /\ ipc = "exited"
    /\ Has(conf.interface, "name") /\ Has(conf.interface, "mac_address")
    /\ Has(conf.interface, "ip_address") /\ Has(conf.interface, "master")
    /\ cmdlog = <<>>

\* the fields of a token
FieldsOf(token) == {token[i] : i \in 1..Len(token)}
VectorsFields == {"vectors=" \o ToString(v) : v \in 0..(2 * MaxQueueCount + 3)}
QueuesFields == {"queues=" \o ToString(q) : q \in 0..(MaxQueueCount + 1)}
\* the -netdev and the -device token of a get_args result
NetdevToken == args.tokens[2]
DeviceTokenOfArgs == args.tokens[Len(args.tokens)]

\* C8: in what Tap.get_args and MacVtap.get_args return, the device token
\* carries mq=on and a vectors field exactly when queue_count > 1; the
\* vectors field is then vectors=2*queue_count+1 (5, 9, 17 for 2, 4, 8) and
\* the netdev token carries queues=queue_count; otherwise neither token
\* carries a vectors or a queues field.
C8_VectorsAndQueues ==
    (args.status = "returned")
        => LET q == obj.queue_count
           IN  /\ ("mq=on" \in FieldsOf(DeviceTokenOfArgs)) <=> (q > 1)
               /\ (FieldsOf(DeviceTokenOfArgs) \cap VectorsFields # {}) <=> (q > 1)
               /\ (q > 1) =>
                    /\ FieldsOf(DeviceTokenOfArgs) \cap VectorsFields
                          = {"vectors=" \o ToString(2 * q + 1)}
                    /\ FieldsOf(NetdevToken) \cap QueuesFields = {"queues=" \o ToString(q)}
               /\ (q = 2) => "vectors=5" \in FieldsOf(DeviceTokenOfArgs)
               /\ (q = 4) => "vectors=9" \in FieldsOf(DeviceTokenOfArgs)
               /\ (q = 8) => "vectors=17" \in FieldsOf(DeviceTokenOfArgs)
               /\ (q <= 1) =>
                    /\ FieldsOf(NetdevToken) \cap QueuesFields = {}
                    /\ FieldsOf(NetdevToken) \cap VectorsFields = {}

C8_Witness ==
    /\ args.status = "returned"
    /\ obj.variant = "MacVtap" /\ obj.queue_count = 8
    /\ "vectors=17" \in FieldsOf(DeviceTokenOfArgs)
    /\ "queues=8" \in FieldsOf(NetdevToken)

\* C9: once MacVtap.create has completed, the interface on the machine
\* carries the configured MAC address, and the device token MacVtap.get_args
\* then returns carries that same address.
C9_MacVtapMacParity ==
    (obj.variant = "MacVtap" /\ ipc = "done")
        => LET host_mac == hosts[ObjMachine].ifaces[obj.name].mac
           IN  /\ host_mac = conf.interface["mac_address"]
               /\ (args.status = "returned")
                    => DeviceTokenOfArgs[3] = "mac=" \o host_mac

C9_Witness ==
    /\ obj.variant = "MacVtap" /\ ipc = "done" /\ Len(creates) = 2
    /\ args.status = "returned"
    /\ hosts[ObjMachine].ifaces[obj.name].mac = ConfiguredMac
    /\ DeviceTokenOfArgs[3] = "mac=" \o ConfiguredMac

(***************************************************************************)
(* Properties of the file transfer, checked under SpecFs.                  *)
(***************************************************************************)
\* the machine a transfer reads and the one it writes
SourceMachine == IF xfer.direction = "to" THEN Local ELSE Remote
DestinationMachine == IF xfer.direction = "to" THEN Remote ELSE Local

\* C10: when a directory copy has completed, the tree at the destination
\* path has the relative paths and the contents of the source directory,
\* also when the last component of the destination is not the name of the
\* source directory.
C10_DirectoryCopyReproducesTree ==
    (fpc = "done" /\ xfer.isdir)
        => TreeAt(fs[DestinationMachine], xfer.destination.parts)
              = TreeAt(fs[SourceMachine], xfer.source.parts)

\* the step of a transfer that copies a single file
FileCopyStep == fpc \in {"to_put_file", "from_get_file"}

CreateLog == ipc \notin {"new", "exited", "constructed"} /\ args = NoArgs

\* the shell command of the i-th command of the create
LogOp(i) == Parse(cmdlog[i].command)

AddOps == {"add_bridge", "add_tap", "add_macvtap", "add_macvlan"}

\* the step of the creation protocol the i-th command belongs to: 1 the
\* existence query, 2 the delete, 3 the creation of the device (with the
\* whoami that names the owner of a tap), 4 the configuration, 5 the
\* bring-up of the interface itself
Phase(i) ==
    LET c == LogOp(i)
    IN  CASE c.op = "show" -> 1
          [] c.op = "delete" -> 2
          [] c.op \in AddOps -> 3
          [] c.op = "whoami" -> IF obj.variant = "Tap" THEN 3 ELSE 4
          [] c.op = "set_up" /\ c.a = obj.name -> 5
          [] OTHER -> 4

LogIndexes == 1..Len(cmdlog)

\* C12: the commands of one create are dispatched one after the other in
\* the order existence query, delete, create device, configuration,
\* bring-up: the query is first and the delete second, dispatched exactly
\* when the query has found the interface;
\* the query, the delete, the device creation and the bring-up are each
\* dispatched at most once; and a completed create created the device and
\* ended with the bring-up (User.create dispatches no command at all).
C12_CreateOrder ==
    CreateLog =>
        /\ \A i, j \in LogIndexes : i < j => Phase(i) <= Phase(j)
        /\ cmdlog # <<>> => Phase(1) = 1
        /\ \A i \in LogIndexes : Phase(i) = 2 => i = 2
        /\ Len(cmdlog) >= 2 => ((Phase(2) = 2) <=> (cmdres[1].return_code = 0))
        /\ \A i, j \in LogIndexes :
              (Phase(i) = Phase(j) /\ Phase(i) \in {1, 2, 5}) => i = j
        /\ \A i, j \in LogIndexes :
              (LogOp(i).op \in AddOps /\ LogOp(j).op \in AddOps) => i = j
        /\ (ipc = "done" /\ obj.variant # "User") =>
              /\ \E i \in LogIndexes : LogOp(i).op \in AddOps
              /\ Phase(Len(cmdlog)) = 5

C12_Witness ==
    /\ CreateLog /\ ipc = "done" /\ obj.variant = "Bridge" /\ Len(obj.childs) = 2
    /\ Len(cmdlog) = 11
    /\ LogOp(2).op = "delete" /\ LogOp(3).op = "add_bridge" /\ LogOp(4).op = "addr_add"
    /\ LogOp(11) = ShellCommand("set_up", "x0", "", "")

\* the device node of the macvtap the object names, on its machine
ObjNode == DevNode(hosts[ObjMachine].ifaces[obj.name].ifindex)

\* C13: in MacVtap.create the chown is dispatched only after the macvtap
\* has been created, a completed create has run the chown, and from then
\* on (also when get_args is asked afterwards) the device node of the
\* interface is owned by the invoking user.
C13_ChownAfterCreateBeforeReturn ==
    (obj.variant = "MacVtap" /\ ipc \notin {"new", "exited", "constructed"})
        => /\ \A i \in LogIndexes :
                 LogOp(i).op = "chown" =>
                    /\ \E j \in 1..(i - 1) : LogOp(j).op = "add_macvtap"
                    /\ obj.name \in DOMAIN hosts[ObjMachine].ifaces
                    /\ hosts[ObjMachine].ifaces[obj.name].kind = "macvtap"
           /\ ipc = "done" =>
                 /\ \E i \in LogIndexes : LogOp(i).op = "chown"
                 /\ ObjNode \in DOMAIN hosts[ObjMachine].nodes
                 /\ hosts[ObjMachine].nodes[ObjNode] = hosts[ObjMachine].user

C13_Witness ==
    /\ obj.variant = "MacVtap" /\ ipc = "done" /\ args.status = "returned"
    /\ hosts[ObjMachine].user = LoginUser
    /\ hosts[ObjMachine].nodes[ObjNode] = LoginUser

\* C14: when a command of a create that must succeed exits non-zero, it is
\* the last command of that create and the create has ended with the
\* error; no command line is dispatched twice in one create; and after a
\* failed device creation the interface is not brought up.  A non-zero
\* exit of a command that need not succeed (the existence query) ends
\* nothing.
C14_FailureEndsCreate ==
    CreateLog =>
        /\ Len(cmdres) = Len(cmdlog)
        /\ \A i \in LogIndexes :
              (cmdres[i].required /\ cmdres[i].return_code # 0) =>
                 /\ i = Len(cmdlog)
                 /\ ipc = "failed"
                 /\ creates[Len(creates)].status = "failed"
        /\ \A i, j \in LogIndexes : cmdlog[i].command = cmdlog[j].command => i = j
        /\ \A i \in LogIndexes :
              (LogOp(i).op \in AddOps /\ cmdres[i].return_code # 0) =>
                 ~\E j \in LogIndexes : Phase(j) = 5

C14_Witness ==
    /\ CreateLog /\ ipc = "failed" /\ obj.variant = "Bridge" /\ obj.childs # <<>>
    /\ Len(cmdlog) = 2
    /\ LogOp(1).op = "show" /\ cmdres[1].return_code # 0 /\ ~cmdres[1].required
    /\ LogOp(2).op = "add_bridge" /\ cmdres[2].return_code # 0 /\ cmdres[2].required

\* the keys the constructor of a variant reads without a default
Mandatory(variant) ==
    CASE variant = "Bridge"  -> {"name"}
      [] variant = "MacVtap" -> {"name", "master", "mac_address"}
      [] variant = "MacVlan" -> {"name", "master", "ip_address"}
      [] variant = "Tap"     -> {"name", "mac_address"}
      [] variant = "User"    -> {"mac_address", "name"}
      [] OTHER               -> {}

\* C15: a constructor called on a dict that lacks a mandatory key of its
\* variant has exited: there is no object, no command has been dispatched
\* and no create or get_args has run.
C15_MissingFieldFailsAtConstruction ==
    (ipc # "new" /\ ~(Mandatory(conf.variant) \subseteq DOMAIN conf.interface))
        => /\ ipc = "exited"
           /\ obj = NoObject
           /\ cmdlog = <<>>
           /\ creates = <<>>
           /\ args = NoArgs

C15_Witness ==
    /\ ipc = "exited" /\ conf.variant = "User"
    /\ Has(conf.interface, "name") /\ ~Has(conf.interface, "mac_address")
    /\ cmdlog = <<>>

(***************************************************************************)
(* Properties of the executor's flags, checked under SpecCmd.              *)
(***************************************************************************)
\* what the call of the state would have ended with under the flags
\* no_pipe and no_output, everything else and the process being the same
WithFlags(no_pipe, no_output) ==
    Complete(req.command, req.connectionWrapper, no_pipe, req.fail_on_returncode,
             req.disown, no_output, proc)

\* C16: for the command, the handle and the process outcome of the call,
\* every setting of no_output and no_pipe raises or returns alike, and a
\* returned result carries the same exit code, stdout and stderr as the
\* one the call returned.
C16_FlagsDoNotChangeCapture ==
    (cpc = "done")
        => \A np \in BOOLEAN, no \in BOOLEAN :
              /\ WithFlags(np, no).raised <=> (outcome = "raised")
              /\ (outcome = "returned") =>
                    /\ WithFlags(np, no).result.return_code = result.return_code
                    /\ WithFlags(np, no).result.stdout = result.stdout
                    /\ WithFlags(np, no).result.stderr = result.stderr

C16_Witness ==
    /\ cpc = "done" /\ outcome = "returned" /\ ~req.disown
    /\ req.no_pipe /\ req.no_output
    /\ result.stdout # <<>> /\ result.stderr # <<>> /\ result.return_code = 1
    /\ printed = <<>>

\* the host name a result or a report of the call names
ReportHost == IF req.connectionWrapper = None THEN "localhost" ELSE req.connectionWrapper.name

\* the line of the failure report that names command, host and exit code
ReportLine ==
    "Error: Command '" \o LastDispatch.command \o "' failed on host '" \o ReportHost
        \o "' with exit code " \o ToString(proc.exited) \o "."

\* the two streams as captured: stripped, the sudo prompt removed from stdout
CapturedStdout == RemoveSudoPrompt(Strip(proc.stdout))
CapturedStderr == Strip(proc.stderr)

C18_ExistingDestination ==
    [][(FileCopyStep /\ ~xfer.destination.slash
          /\ xfer.destination.parts \in DOMAIN fs[DestinationMachine])
         => LET kind == fs[DestinationMachine][xfer.destination.parts].type
            IN  /\ kind = "other" => (fpc' = "sysexit" /\ fs' = fs)
                /\ kind = "reg" =>
                      /\ fpc' = "done"
                      /\ fs'[DestinationMachine][xfer.destination.parts]
                            = fs[SourceMachine][xfer.source.parts]]_vars

\* a directory transfer has completed
DirectoryDone == fpc = "done" /\ xfer.isdir

FsLogIndexes == 1..Len(fslog)

\* the i-th operation of the transfer unpacks the archive at the destination
Decompresses(i) ==
    /\ fslog[i].op = "run" /\ fslog[i].machine = DestinationMachine
    /\ FsParse(fslog[i].what) = ShellCommand("tar_x", DestinationArchive.parts,
                                              PathParent(xfer.destination), "")

\* the i-th operation of the transfer deletes archive on machine m
Deletes(i, m, archive) ==
    /\ fslog[i].machine = m
    /\ \/ fslog[i].op = "os.remove" /\ fslog[i].what = PathStr(archive)
       \/ fslog[i].op = "run"
            /\ FsParse(fslog[i].what) = ShellCommand("rm_f", archive.parts, "", "")

\* C19: when a directory transfer has completed, the archive on the source
\* side and the archive on the destination side are gone, and each was
\* deleted after the archive had been unpacked at the destination; nothing
\* was deleted before.
C19_ArchivesRemovedAfterDecompress ==
    DirectoryDone =>
        /\ SourceArchive.parts \notin DOMAIN fs[SourceMachine]
        /\ DestinationArchive.parts \notin DOMAIN fs[DestinationMachine]
        /\ \E d, s, t \in FsLogIndexes :
              /\ Decompresses(d)
              /\ d < s /\ Deletes(s, SourceMachine, SourceArchive)
              /\ d < t /\ Deletes(t, DestinationMachine, DestinationArchive)
              /\ \A i \in 1..(d - 1) : fslog[i].op # "os.remove"
                                          /\ FsParse(fslog[i].what).op # "rm_f"

C19_Witness ==
    /\ DirectoryDone /\ xfer.direction = "from"
    /\ PathName(xfer.source) # PathName(xfer.destination)
    /\ xfer.connection.name = "web"
    /\ Len(fslog) = 5
    /\ IsReg(fs[Local], <<"srv", "src", "sub", "b">>)

(***************************************************************************)
(* Properties of concurrent transfers, checked under SpecPair.             *)
(***************************************************************************)
\* both transfers are running
BothRunning == \A i \in {1, 2} : ppc[i] \notin {"idle", "done"}

\* C20: while two directory transfers on connections with different names
\* are both running, no archive path in the local /tmp has been read,
\* written or deleted by both, whatever the names of their source and
\* destination directories are.
C20_NoSharedLocalArchive ==
    (BothRunning /\ pair[1].connection.name # pair[2].connection.name)
        => \A a \in touched[1], b \in touched[2] : a.path # b.path

(***************************************************************************)
(* The existence query and the delete of one create, under SpecIface.      *)
(***************************************************************************)
\* the create has returned or raised, and it was one that runs commands
CreateEnded == CreateLog /\ ipc \in {"done", "failed", "sysexit"} /\ obj.variant # "User"

\* the exit code of the existence query of the create
QueryExit == cmdres[1].return_code

\* the second command of the create is the delete of the target name
DeleteSecond == Len(cmdlog) >= 2 /\ LogOp(2) = ShellCommand("delete", obj.name, "", "")

\* the creation command of the device has been dispatched
AddDispatched == \E i \in LogIndexes : LogOp(i).op \in AddOps /\ LogOp(i).a = obj.name

\* the delete follows the query exactly when the query exited 0, nothing
\* else is ever deleted, and a query that exits non-zero does not end the
\* create
DeleteIffQueryFound ==
    /\ Len(cmdlog) >= 2 => (DeleteSecond <=> QueryExit = 0)
    /\ \A i \in LogIndexes : LogOp(i).op = "delete" => (i = 2 /\ DeleteSecond)
    /\ (Len(cmdlog) = 1 /\ QueryExit # 0) => ipc \notin {"done", "failed", "sysexit"}
    /\ (Len(cmdlog) >= 1 /\ QueryExit # 0) => ~cmdres[1].required

\* C21 as stated: the delete is dispatched if and only if the existence
\* query exited 0, a query that exits non-zero neither raises nor ends the
\* create, and every create that has ended has dispatched the creation
\* command, whether the query found the interface or not.
C21_DeleteIffExists_Claimed ==
    (CreateLog /\ cmdlog # <<>>) =>
        /\ DeleteIffQueryFound
        /\ CreateEnded => AddDispatched

\* C21 amended: the delete is dispatched if and only if the existence query
\* exited 0, a query that exits non-zero neither raises nor ends the create,
\* and a create that has ended has dispatched the creation command exactly
\* when the query exited non-zero or the delete that followed it exited 0:
\* a delete that fails raises and the device is never created.
C21_DeleteIffExists ==
    (CreateLog /\ cmdlog # <<>>) =>
        /\ DeleteIffQueryFound
        /\ CreateEnded =>
              (AddDispatched <=>
                  (QueryExit # 0 \/ (Len(cmdres) >= 2 /\ cmdres[2].return_code = 0)))

\* a second create finds the interface the first one made, deletes it and
\* creates it again
C21_Witness ==
    /\ CreateEnded /\ ipc = "done" /\ Len(creates) = 2
    /\ QueryExit = 0 /\ DeleteSecond /\ cmdres[2].return_code = 0
    /\ AddDispatched


(***************************************************************************)
(* The children of a bridge, under SpecIface.                              *)
(***************************************************************************)
\* the place of the creation command in the log of a Bridge.create
BridgeAddAt == CHOOSE i \in LogIndexes : LogOp(i).op = "add_bridge"

\* the place after which the children are processed: the creation command,
\* or the IP assignment when the bridge has an address
ChildrenStart == BridgeAddAt + (IF obj.ip_address # "" THEN 1 ELSE 0)

\* the k-th command of the loop over the children: three per child, in the
\* order of the list
ChildCommand(k) ==
    LET c == obj.childs[((k - 1) \div 3) + 1]
    IN  CASE (k - 1) % 3 = 0 -> ShellCommand("set_down", c, "", "")
          [] (k - 1) % 3 = 1 -> ShellCommand("set_master", c, obj.name, "")
          [] (k - 1) % 3 = 2 -> ShellCommand("set_up", c, "", "")

\* C22: in Bridge.create, after the creation of the bridge device and the
\* optional assignment of its IP, the commands dispatched are, child by
\* child in list order, bring-down, attach-to-bridge, bring-up, each child
\* finished before the next starts; the bring-up of the bridge itself comes
\* only after the commands of every child, and a create that completed has
\* dispatched all of them.
C22_BridgeChildrenInOrder ==
    (CreateLog /\ obj.variant = "Bridge" /\ \E i \in LogIndexes : LogOp(i).op = "add_bridge") =>
        LET n == Len(obj.childs)
        IN  /\ (obj.ip_address # "" /\ Len(cmdlog) > BridgeAddAt) =>
                  LogOp(BridgeAddAt + 1) = ShellCommand("addr_add", obj.name, obj.ip_address, "")
            /\ \A i \in LogIndexes :
                  i > ChildrenStart =>
                     IF i - ChildrenStart <= 3 * n
                     THEN LogOp(i) = ChildCommand(i - ChildrenStart)
                     ELSE /\ i = ChildrenStart + 3 * n + 1
                          /\ LogOp(i) = ShellCommand("set_up", obj.name, "", "")
            /\ ipc = "done" => Len(cmdlog) = ChildrenStart + 3 * n + 1

\* a bridge without address and with the children c0 and m0 has been
\* created: c0 was brought up before m0 was brought down
C22_Witness ==
    /\ CreateLog /\ obj.variant = "Bridge" /\ ipc = "done"
    /\ obj.childs = <<"c0", "m0">> /\ obj.ip_address = ""
    /\ \E i \in LogIndexes :
          /\ LogOp(i).op = "add_bridge"
          /\ Len(cmdlog) = i + 7
          /\ LogOp(i + 3) = ShellCommand("set_up", "c0", "", "")
          /\ LogOp(i + 4) = ShellCommand("set_down", "m0", "", "")
          /\ LogOp(i + 7) = ShellCommand("set_up", "x0", "", "")


(***************************************************************************)
(* Several asynchronous commands started as tasks and gathered, as main   *)
(* of run_single_command_example.py does.                                  *)
(***************************************************************************)
\* the tasks main creates before it awaits
MaxTasks == 3
\* the threads of the worker pool
PoolWorkers == 2

TaskIndexes == 1..Len(tasks)

\* the command of the i-th task created
TaskCommand(i) == StrCommand("echo Task " \o ToString(i - 1) \o " done")

TaskConnections == {None, ConnectionWrapper("h1", "")}

\* what the process of the i-th task may do
TaskOutcomes(i) ==
    {FbResult(0, <<"Task ", ToString(i - 1), " done", "\n">>, <<>>),
     FbResult(1, <<>>, <<"killed", "\n">>)}

\* asyncio.create_task(run_single_command(...)): the coroutine is scheduled,
\* nothing of it has run
Task(command, connectionWrapper, fail_on_returncode) ==
    [command |-> command, connectionWrapper |-> connectionWrapper,
     fail_on_returncode |-> fail_on_returncode, state |-> "created",
     dispatch |-> Dispatch(StrCommand(""), None, FALSE, FALSE, FALSE),
     raised |-> FALSE, result |-> NoResult]

\* the event loop runs the ready coroutines in the order they were created:
\* task i starts when those created before it have reached their await
CanStartMutAwaited(i) == \A j \in 1..(i - 1) : tasks[j].state = "finished"
CanStart(i) == \A j \in 1..(i - 1) : tasks[j].state # "created"

\* asyncio.gather hands the results back in the order of its arguments,
\* whatever the order the tasks completed in
GatherOrderMutCompletion(n, done) == done
GatherOrder(n, done) == [k \in 1..n |-> k]

Running == {i \in TaskIndexes : tasks[i].state = "running"}

\* main creates one more task
CreateTask ==
    /\ tpc \in {"idle", "creating"}
    /\ Len(tasks) < MaxTasks
    /\ \E c \in TaskConnections, f \in BOOLEAN :
          tasks' = Append(tasks, Task(TaskCommand(Len(tasks) + 1), c, f))
    /\ tpc' = "creating"
    /\ UNCHANGED <<pool, completion, gathered>>
    /\ UNCHANGED <<cmdVars, ifVars, fsVars, pairVars, duoVars, gwVars, imgVars>>

\* main awaits (the sleep, then the gather): the event loop takes over
MainAwait ==
    /\ tpc = "creating"
    /\ Len(tasks) >= 2
    /\ tpc' = "waiting"
    /\ UNCHANGED <<tasks, pool, completion, gathered>>
    /\ UNCHANGED <<cmdVars, ifVars, fsVars, pairVars, duoVars, gwVars, imgVars>>

\* run_single_command of task i up to its await: the call is handed to the
\* worker pool
TaskStart(i) ==
    /\ tpc # "creating"
    /\ tasks[i].state = "created"
    /\ CanStart(i)
    /\ ~ConfigError(FALSE, TRUE)
    /\ tasks' = [tasks EXCEPT ![i].state = "submitted"]
    /\ pool' = Append(pool, i)
    /\ UNCHANGED <<tpc, completion, gathered>>
    /\ UNCHANGED <<cmdVars, ifVars, fsVars, pairVars, duoVars, gwVars, imgVars>>

\* a free thread of the pool takes the oldest call and dispatches its command
WorkerTake ==
    /\ pool # <<>>
    /\ Cardinality(Running) < PoolWorkers
    /\ LET i == Head(pool)
       IN  tasks' = [tasks EXCEPT
                       ![i].state = "running",
                       ![i].dispatch = Dispatch(tasks[i].command, tasks[i].connectionWrapper,
                                                FALSE, FALSE, FALSE)]
    /\ pool' = Tail(pool)
    /\ UNCHANGED <<tpc, completion, gathered>>
    /\ UNCHANGED <<cmdVars, ifVars, fsVars, pairVars, duoVars, gwVars, imgVars>>

\* the process of task i ends and __run_single_command returns or raises
WorkerFinish(i) ==
    /\ tasks[i].state = "running"
    /\ \E fb \in TaskOutcomes(i) :
          LET c == Complete(tasks[i].command, tasks[i].connectionWrapper, TRUE,
                            tasks[i].fail_on_returncode, FALSE, TRUE, fb)
          IN  tasks' = [tasks EXCEPT
                          ![i].state = "finished",
                          ![i].raised = c.raised,
                          ![i].result = IF c.raised THEN NoResult ELSE c.result]
    /\ completion' = Append(completion, i)
    /\ UNCHANGED <<tpc, pool, gathered>>
    /\ UNCHANGED <<cmdVars, ifVars, fsVars, pairVars, duoVars, gwVars, imgVars>>

\* every task has returned: gather returns the list of their results
GatherReturn ==
    /\ tpc = "waiting"
    /\ \A i \in TaskIndexes : tasks[i].state = "finished" /\ ~tasks[i].raised
    /\ gathered' = [k \in TaskIndexes |-> tasks[GatherOrder(Len(tasks), completion)[k]].result]
    /\ tpc' = "returned"
    /\ UNCHANGED <<tasks, pool, completion>>
    /\ UNCHANGED <<cmdVars, ifVars, fsVars, pairVars, duoVars, gwVars, imgVars>>

\* a task has raised CommandException: gather raises it
GatherRaise ==
    /\ tpc = "waiting"
    /\ \E i \in TaskIndexes : tasks[i].state = "finished" /\ tasks[i].raised
    /\ tpc' = "raised"
    /\ UNCHANGED <<tasks, pool, completion, gathered>>
    /\ UNCHANGED <<cmdVars, ifVars, fsVars, pairVars, duoVars, gwVars, imgVars>>

TaskNext ==
    \/ CreateTask
    \/ MainAwait
    \/ \E i \in TaskIndexes : TaskStart(i)
    \/ WorkerTake
    \/ \E i \in TaskIndexes : WorkerFinish(i)
    \/ GatherReturn
    \/ GatherRaise

InitTasks == CmdInit /\ IfIdle /\ FsIdle /\ PairInit /\ ExtIdle

\* tasks created, run by the worker pool and gathered
SpecTasks == InitTasks /\ [][TaskNext]_vars

\* C23: once main awaits, every task hands its command to the worker pool
\* as soon as the tasks created before it have handed over theirs, whether
\* or not any of them has finished; and the list gather returns holds, at
\* the place of each task, the result of that task's own command: its
\* command text, the name of its host and the exit code of its process.
C23_TasksRunConcurrently ==
    /\ \A i \in TaskIndexes :
          (tpc = "waiting" /\ tasks[i].state = "created"
             /\ \A j \in 1..(i - 1) : tasks[j].state # "created")
          => ENABLED TaskStart(i)
    /\ tpc = "returned" =>
          /\ Len(gathered) = Len(tasks)
          /\ \A i \in TaskIndexes :
                /\ gathered[i].command = "echo Task " \o ToString(i - 1) \o " done"
                /\ gathered[i].host = NameOf(tasks[i].connectionWrapper)
                /\ gathered[i].return_code \in {0, 1}
                /\ gathered[i].return_code = 0 <=>
                      gathered[i].stdout = <<"Task ", ToString(i - 1), " done">>

\* three tasks were gathered; the second one created finished first and the
\* first one last, and the list is in the order of creation all the same
C23_Witness ==
    /\ tpc = "returned" /\ Len(tasks) = 3
    /\ completion = <<2, 3, 1>>
    /\ gathered[1].command = "echo Task 0 done"
    /\ gathered[3].command = "echo Task 2 done"
    /\ \E i \in TaskIndexes : gathered[i].return_code = 1


(***************************************************************************)
(* Two creates run concurrently: each is a coroutine that awaits one       *)
(* command at a time, and the event loop interleaves the two.              *)
(***************************************************************************)
\* a create in progress: the object, the step it is at, the user name read
CreateProcess(o) == [obj |-> o, pc |-> "check", username |-> ""]

\* the run_single_command the create makes at its step
Call(command, sudo, fail_on_returncode) ==
    [command |-> command, sudo |-> sudo, fail_on_returncode |-> fail_on_returncode]

CreateCall(p) ==
    LET o == p.obj
    IN  CASE p.pc = "check"  -> Call(CheckIfaceCmd(o.name), FALSE, FALSE)
          [] p.pc = "delete" -> Call(DeleteIfaceCmd(o.name), TRUE, TRUE)
          [] p.pc = "whoami" -> Call(GetUsernameCmd, FALSE, TRUE)
          [] p.pc = "add"    ->
                Call(CASE o.variant = "Bridge" -> BridgeAddCmd(o)
                       [] o.variant = "Tap" -> TapAddCmd(o, p.username)
                       [] o.variant = "MacVlan" -> MacVlanAddCmd(o), TRUE, TRUE)
          [] p.pc = "ip"     -> Call(SetIfaceIpCmd(o.name, o.ip_address), TRUE, TRUE)
          [] p.pc = "master" -> Call(SetMasterCmd(o.name, o.master), TRUE, TRUE)
          [] p.pc = "up"     -> Call(SetIfaceUpCmd(o.name), TRUE, TRUE)

\* the step that follows when the call returned the result shown
CreateAfter(p, shown) ==
    LET o == p.obj
    IN  CASE p.pc = "check"  -> IF IfaceExists(shown) THEN "delete" ELSE AfterDelete(o)
          [] p.pc = "delete" -> AfterDelete(o)
          [] p.pc = "whoami" -> "add"
          [] p.pc = "add"    ->
                (CASE o.variant = "Bridge" ->
                         IF o.ip_address # "" THEN "ip" ELSE AfterBridgeIp(o)
                   [] o.variant = "Tap" ->
                         IF o.ip_address # "" THEN "ip"
                         ELSE IF o.master # "" THEN "master" ELSE "up"
                   [] o.variant = "MacVlan" -> "ip")
          [] p.pc = "ip"     -> IF o.variant = "Bridge" THEN AfterBridgeIp(o) ELSE "up"
          [] p.pc = "master" -> "up"
          [] p.pc = "up"     -> "done"

\* one awaited command of the create p on a machine in state h: the create
\* and the machine afterwards
CreateStep(p, h) ==
    LET call == CreateCall(p)
        d == Dispatch(call.command, p.obj.connection, call.sudo, FALSE, FALSE)
    IN  {LET c == Complete(call.command, p.obj.connection, TRUE,
                           call.fail_on_returncode, FALSE, TRUE, r.fb)
         IN  [p |-> IF c.raised THEN [p EXCEPT !.pc = "failed"]
                    ELSE [p EXCEPT !.pc = CreateAfter(p, c.result),
                                   !.username = IF p.pc = "whoami"
                                                THEN Concat(Strip(c.result.stdout)) ELSE @],
              host |-> r.host] : r \in HostOutcomes(h, d)}

CreateOver(p) == p.pc \in {"done", "failed"}

\* the create p run to its end with nothing else running on the machine
RECURSIVE CreateAlone(_, _)
CreateAlone(p, h) ==
    IF CreateOver(p) THEN [p |-> p, host |-> h]
    ELSE LET r == CHOOSE r \in CreateStep(p, h) : TRUE
         IN  CreateAlone(r.p, r.host)

\* the first interface: x0, of any of the three variants
FirstObjects(connection) ==
    {IfaceObject("Bridge", "x0", "", "", "", 1, FALSE, <<>>, connection),
     IfaceObject("Tap", "x0", "", ConfiguredMac, ConfiguredIp, 1, FALSE, <<>>, connection),
     IfaceObject("Tap", "x0", "m0", ConfiguredMac, "", 1, FALSE, <<>>, connection),
     IfaceObject("MacVlan", "x0", "m0", "", ConfiguredIp, 1, FALSE, <<>>, connection)}

\* the second interface: c0, with no master and no child
SecondObjects(connection) ==
    {IfaceObject("Bridge", "c0", "", "", "", 1, FALSE, <<>>, connection),
     IfaceObject("Tap", "c0", "", ConfiguredMac, OtherIp, 1, FALSE, <<>>, connection)}

\* the handles of the two creates: the same machine, or two machines
DuoConnections == {<<None, None>>, <<None, ConnectionWrapper("h1", "")>>}

\* the two creates are started on a host in any starting state
DuoStart ==
    /\ duo = <<>>
    /\ \E cs \in DuoConnections, h \in InitialHosts :
          /\ WellFormed(h.ifaces)
          /\ \E a \in FirstObjects(cs[1]), b \in SecondObjects(cs[2]) :
                duo' = <<CreateProcess(a), CreateProcess(b)>>
          /\ dhosts' = [m \in Machines |-> h]
          /\ dstart' = [m \in Machines |-> h]
    /\ UNCHANGED <<cmdVars, ifVars, fsVars, pairVars, taskVars, gwVars, imgVars>>

\* the event loop resumes create i: its next command runs
DuoStep(i) ==
    /\ duo # <<>>
    /\ ~CreateOver(duo[i])
    /\ LET m == TargetMachine(duo[i].obj.connection)
       IN  \E r \in CreateStep(duo[i], dhosts[m]) :
              /\ duo' = [duo EXCEPT ![i] = r.p]
              /\ dhosts' = [dhosts EXCEPT ![m] = r.host]
    /\ UNCHANGED dstart
    /\ UNCHANGED <<cmdVars, ifVars, fsVars, pairVars, taskVars, gwVars, imgVars>>

DuoNext ==
    \/ DuoStart
    \/ DuoStep(1)
    \/ DuoStep(2)

InitDuo == CmdInit /\ IfIdle /\ FsIdle /\ PairInit /\ ExtIdle

\* two creates interleaved by the event loop
SpecDuo == InitDuo /\ [][DuoNext]_vars

\* what create i does when it runs alone from the starting state
DuoAlone(i) ==
    CreateAlone(CreateProcess(duo[i].obj), dstart[TargetMachine(duo[i].obj.connection)])

\* the state of the interface create i is about, on a machine in state h
TargetView(i, h) ==
    IF duo[i].obj.name \in DOMAIN h.ifaces
    THEN <<"present", IfaceViewNoMac(h.ifaces[duo[i].obj.name])>>
    ELSE <<"absent">>

\* C24: two creates for the different names x0 and c0, with no shared child
\* or master, each of which completes when it runs alone from the starting
\* state, have both completed when both are over, under every interleaving
\* of their commands, and each interface is in the state (kind, address,
\* membership, up or down) its create leaves when it runs alone.
C24_IndependentCreates ==
    (duo # <<>> /\ CreateOver(duo[1]) /\ CreateOver(duo[2])
       /\ DuoAlone(1).p.pc = "done" /\ DuoAlone(2).p.pc = "done") =>
        \A i \in {1, 2} :
           /\ duo[i].pc = "done"
           /\ TargetView(i, dhosts[TargetMachine(duo[i].obj.connection)])
                 = TargetView(i, DuoAlone(i).host)


(***************************************************************************)
(* create_connection_from_config: a configuration dict, its gateway a      *)
(* configuration dict in turn.                                             *)
(***************************************************************************)
\* how deep the gateways of a configuration nest
MaxDepth == 3

\* ssh_config: absent keys are "" (user), FALSE (persistent_ssh_tunnel, the
\* default of the lookup) and NoConfig (gateway)
SshConfig(host, user, persistent_ssh_tunnel, gateway) ==
    [host |-> host, user |-> user, persistent_ssh_tunnel |-> persistent_ssh_tunnel,
     gateway |-> gateway]

GwHosts == {"h1", "gw1"}
GwUsers == {"", "ops"}

RECURSIVE SshConfigs(_)
SshConfigs(depth) ==
    IF depth = 0 THEN {}
    ELSE {SshConfig(h, u, p, g) : h \in GwHosts, u \in GwUsers, p \in BOOLEAN,
                                  g \in SshConfigs(depth - 1) \cup {NoConfig}}

\* fabric's Connection(host, user, port, gateway)
FabricConnection(host, user, gateway) ==
    [host |-> host, user |-> user, port |-> 22, gateway |-> gateway]

\* the test of line 74: the gateway is resolved
UsesGatewayMutAlways(ssh_config) == ssh_config.gateway # NoConfig
UsesGateway(ssh_config) ==
    ssh_config.gateway # NoConfig /\ ~ssh_config.persistent_ssh_tunnel

\* a call of create_connection_from_config in progress: its argument and
\* the gateway connection it holds once the recursive call has returned
Frame(ssh_config) == [ssh_config |-> ssh_config, resolved |-> FALSE, gateway |-> NoConnection]

\* create_connection_from_config(None): sys.exit(1)
GwCallNone ==
    /\ gwpc = "idle"
    /\ gwpc' = "exited"
    /\ UNCHANGED <<gwconf, gwstack, gwbuilt, gwret>>
    /\ UNCHANGED <<cmdVars, ifVars, fsVars, pairVars, taskVars, duoVars, imgVars>>

\* create_connection_from_config is called on a configuration
GwCall ==
    /\ gwpc = "idle"
    /\ \E c \in SshConfigs(MaxDepth) :
          /\ gwconf' = c
          /\ gwstack' = <<Frame(c)>>
    /\ gwpc' = "running"
    /\ UNCHANGED <<gwbuilt, gwret>>
    /\ UNCHANGED <<cmdVars, ifVars, fsVars, pairVars, taskVars, duoVars, imgVars>>

\* the call on top recurses into its gateway
GwDescend ==
    /\ gwpc = "running"
    /\ LET f == gwstack[Len(gwstack)]
       IN  /\ UsesGateway(f.ssh_config) /\ ~f.resolved
           /\ gwstack' = Append(gwstack, Frame(f.ssh_config.gateway))
    /\ UNCHANGED <<gwconf, gwbuilt, gwret, gwpc>>
    /\ UNCHANGED <<cmdVars, ifVars, fsVars, pairVars, taskVars, duoVars, imgVars>>

\* the call on top builds its Connection and returns the wrapper; the
\* caller, if any, keeps the connection of the wrapper as its gateway
GwReturn ==
    /\ gwpc = "running"
    /\ LET n == Len(gwstack)
           f == gwstack[n]
           c == FabricConnection(f.ssh_config.host, f.ssh_config.user,
                                 IF UsesGateway(f.ssh_config) THEN f.gateway ELSE NoConnection)
       IN  /\ UsesGateway(f.ssh_config) => f.resolved
           /\ gwbuilt' = Append(gwbuilt, c)
           /\ gwret' = c
           /\ gwstack' = IF n = 1 THEN <<>>
                         ELSE [SubSeq(gwstack, 1, n - 1) EXCEPT
                                  ![n - 1].resolved = TRUE, ![n - 1].gateway = c]
           /\ gwpc' = IF n = 1 THEN "returned" ELSE "running"
    /\ UNCHANGED gwconf
    /\ UNCHANGED <<cmdVars, ifVars, fsVars, pairVars, taskVars, duoVars, imgVars>>

GwNext ==
    \/ GwCallNone
    \/ GwCall
    \/ GwDescend
    \/ GwReturn

InitGw == CmdInit /\ IfIdle /\ FsIdle /\ PairInit /\ ExtIdle

\* one call of create_connection_from_config
SpecGw == InitGw /\ [][GwNext]_vars

\* the connection has the gateways of the configuration as its proxies, all
\* the way down; with honoursTunnel, a configuration that sets
\* persistent_ssh_tunnel is expected to have no proxy
RECURSIVE ProxyChain(_, _, _)
ProxyChain(connection, ssh_config, honoursTunnel) ==
    IF ssh_config.gateway # NoConfig
         /\ (honoursTunnel => ~ssh_config.persistent_ssh_tunnel)
    THEN /\ connection.gateway # NoConnection
         /\ connection.gateway.host = ssh_config.gateway.host
         /\ ProxyChain(connection.gateway, ssh_config.gateway, honoursTunnel)
    ELSE connection.gateway = NoConnection

\* every connection built is the proxy of the one built after it, and the
\* last one built is the one returned
BuiltGatewayFirst ==
    /\ gwbuilt # <<>>
    /\ gwbuilt[Len(gwbuilt)] = gwret
    /\ \A i \in 1..(Len(gwbuilt) - 1) : gwbuilt[i + 1].gateway = gwbuilt[i]

\* C25 as stated: for every configuration that names a gateway, at any
\* depth, the gateway's handle is built first and the connection returned
\* has the gateway's connection as its proxy; without a gateway it has none.
C25_GatewayIsProxy_Claimed ==
    gwpc = "returned" =>
        /\ gwret.host = gwconf.host
        /\ ProxyChain(gwret, gwconf, FALSE)
        /\ BuiltGatewayFirst

\* C25 amended: the same for every configuration that names a gateway and
\* does not set persistent_ssh_tunnel; a configuration that sets
\* persistent_ssh_tunnel yields a connection without proxy, whatever gateway
\* it names, and its gateway's handle is never built.
C25_GatewayIsProxy ==
    gwpc = "returned" =>
        /\ gwret.host = gwconf.host
        /\ ProxyChain(gwret, gwconf, TRUE)
        /\ BuiltGatewayFirst

\* a configuration with a gateway behind a gateway: three connections were
\* built, the innermost gateway first
C25_Witness ==
    /\ gwpc = "returned"
    /\ Len(gwbuilt) = 3
    /\ gwconf.host = "h1" /\ gwconf.gateway.host = "gw1"
    /\ gwbuilt[1].host = gwconf.gateway.gateway.host
    /\ gwbuilt[1].gateway = NoConnection
    /\ gwret.gateway.gateway = gwbuilt[1]


(***************************************************************************)
(* The two scheduling modes of run_single_command, under SpecCmd.          *)
(***************************************************************************)
\* how __run_single_command ends on the arguments a when the process does fb
InnerOutcome(a, fb) ==
    LET c == Complete(a.command, a.connectionWrapper, a.no_pipe, a.fail_on_returncode,
                      a.disown, a.no_output, fb)
    IN  [outcome |-> IF c.raised THEN "raised" ELSE "returned",
         result |-> IF c.raised THEN NoResult ELSE c.result]

\* how the call r ends in the other scheduling mode when the process does fb
OtherMode(r, fb) ==
    IF ConfigError(r.disown, ~r.asynchronous)
    THEN [outcome |-> "config_error", result |-> NoResult]
    ELSE InnerOutcome(IF r.asynchronous THEN InlineArgs(r) ELSE PartialArgs(r), fb)

\* how the call of the state has ended
ThisMode == [outcome |-> outcome, result |-> result]

\* C26 as stated: a call that has ended, in either mode, has ended as the
\* same call ends in the other mode for the same process outcome: the same
\* result fields, or the same command-execution error.
C26_SameOutcomeInBothModes_Claimed ==
    cpc \in {"done", "exited"} =>
        \A fb \in (IF cpc = "exited" THEN ProcessOutcomes ELSE {proc}) :
           ThisMode = OtherMode(req, fb)

\* C26 amended: a call that is not detached ends in the same way in both
\* modes for the same process outcome; a detached call ends differently: on
\* the worker pool it is refused before anything is dispatched, inline it
\* returns the result of a detached command.
C26_SameOutcomeInBothModes ==
    /\ (cpc = "done" /\ ~req.disown) => ThisMode = OtherMode(req, proc)
    /\ (cpc = "done" /\ req.disown) =>
          /\ ~req.asynchronous /\ outcome = "returned"
          /\ OtherMode(req, proc).outcome = "config_error"
    /\ cpc = "exited" =>
          /\ req.disown /\ req.asynchronous /\ outcome = "config_error"
          /\ \A fb \in ProcessOutcomes : OtherMode(req, fb).outcome = "returned"

\* a call on the worker pool whose command exits non-zero has raised, as the
\* inline call does
C26_Witness ==
    /\ cpc = "done" /\ req.asynchronous /\ ~req.disown
    /\ req.fail_on_returncode /\ ~req.no_pipe
    /\ proc.exited # 0 /\ outcome = "raised"
    /\ OtherMode(req, proc).outcome = "raised"


\* the temporary archives of a transfer, each with the machine it is on
TransferArchives(t) ==
    {<<Local, LocalArchive(t)>>, <<TargetMachine(t.connection), RemoteArchive(t)>>}

\* C27: while two directory transfers whose directories have different
\* parents are both running, they have no temporary archive path in common
\* on any machine, also when they go over the same connection and their
\* source or destination directories have the same base name.
C27_DistinctArchivePaths ==
    (BothRunning /\ pair[1].parent # pair[2].parent) =>
        TransferArchives(pair[1]) \cap TransferArchives(pair[2]) = {}


(***************************************************************************)
(* validate_image_use: the processes that hold a disk image.               *)
(***************************************************************************)
DiskImagePath == "/vm/disk.img"
Pids == {"101", "102"}
Comms == {"qemu-system-x86", "vim"}

\* comm.startswith("qemu")
StartsWithQemu(comm) == \E rest \in {"", "-system-x86", "-kvm"} : comm = "qemu" \o rest

\* the three commands of validate_image_use
LsofCmd(disk_image_path) == StrCommand("lsof -t " \o disk_image_path)
PsCommCmd(pid) == StrCommand("ps -p " \o pid \o " -o comm=")
KillCmd(pid) == StrCommand("kill -9 " \o pid)

ImgShellCommands ==
    {ShellCommand("lsof", DiskImagePath, "", "")}
    \cup {ShellCommand(op, pid, "", "") : op \in {"ps", "kill"}, pid \in Pids}

ImgRender(c) ==
    CASE c.op = "lsof" -> LsofCmd(c.a).text
      [] c.op = "ps"   -> PsCommCmd(c.a).text
      [] c.op = "kill" -> KillCmd(c.a).text

ImgShellTable == {[line |-> ImgRender(c), cmd |-> c] : c \in ImgShellCommands}

ImgParse(line) ==
    IF \E e \in ImgShellTable : e.line = line
    THEN (CHOOSE e \in ImgShellTable : e.line = line).cmd
    ELSE UnknownCommand

\* one line per element
RECURSIVE Lines(_)
Lines(items) == IF items = <<>> THEN <<>> ELSE <<Head(items), "\n">> \o Lines(Tail(items))

\* s.split('\n') of a stripped stream, without the empty pieces
RECURSIVE SplitLines(_)
SplitLines(stream) ==
    IF stream = <<>> THEN <<>>
    ELSE IF Head(stream) = "\n" THEN SplitLines(Tail(stream))
    ELSE <<Head(stream)>> \o SplitLines(Tail(stream))

\* the sequence without the element
RECURSIVE Without(_, _)
Without(items, x) ==
    IF items = <<>> THEN <<>>
    ELSE IF Head(items) = x THEN Without(Tail(items), x)
    ELSE <<Head(items)>> \o Without(Tail(items), x)

\* what the command of dispatch d does on a machine in state h: lsof lists
\* the holders, ps names a process, kill needs the owner's or root's rights
ImgOutcomes(h, d) ==
    LET c == ImgParse(d.command)
        privileged == d.method = "sudo" \/ h.user = "root"
    IN  CASE c.op = "lsof" ->
                IF h.holders = <<>> THEN [host |-> h, fb |-> FbResult(1, <<>>, <<>>)]
                ELSE Ok(h, Lines(h.holders))
          [] c.op = "ps" ->
                IF c.a \in DOMAIN h.procs THEN Ok(h, <<h.procs[c.a].comm, "\n">>)
                ELSE [host |-> h, fb |-> FbResult(1, <<>>, <<>>)]
          [] c.op = "kill" ->
                IF c.a \notin DOMAIN h.procs THEN Fails(h, 1, "No such process")
                ELSE IF ~(privileged \/ h.procs[c.a].owner = h.user)
                THEN Fails(h, 1, "Operation not permitted")
                ELSE Ok([h EXCEPT !.holders = Without(h.holders, c.a),
                                  !.procs = Removed(h.procs, {c.a})], <<>>)
          [] OTHER -> Fails(h, 127, "command not found")

\* one run_single_command of validate_image_use (no_pipe, no_output)
ImgExec(command, sudo, fail_on_returncode) ==
    LET d == Dispatch(command, imgreq.connection, sudo, FALSE, FALSE)
        r == ImgOutcomes(imghost, d)
    IN  [d |-> d, host |-> r.host,
         c |-> Complete(command, imgreq.connection, TRUE, fail_on_returncode, FALSE, TRUE, r.fb)]

ImgRan(e) ==
    /\ imghost' = e.host
    /\ imglog' = Append(imglog, e.d)

\* the holders of the image when validate_image_use is called
HolderLists == {<<>>, <<"101">>, <<"102">>, <<"101", "102">>, <<"102", "101">>}

ProcessTables ==
    {[holders |-> l, procs |-> [k \in {l[i] : i \in 1..Len(l)} |-> [comm |-> cm[k], owner |-> ow[k]]],
      user |-> u] :
        l \in HolderLists, cm \in [Pids -> Comms], ow \in [Pids -> Users], u \in Users}

\* validate_image_use is called
ImgCall ==
    /\ imgpc = "idle"
    /\ \E c \in {None, ConnectionWrapper("h1", "")}, k \in BOOLEAN, h \in ProcessTables :
          /\ imgreq' = [connection |-> c, kill_running_vms |-> k]
          /\ imgstart' = h
          /\ imghost' = h
    /\ imgpc' = "lsof"
    /\ UNCHANGED <<imgpids, imgidx, imglog, imgret>>
    /\ UNCHANGED <<cmdVars, ifVars, fsVars, pairVars, taskVars, duoVars, gwVars>>

\* the loop goes on with the pid after the current one, or the function
\* returns True
ImgAdvance(pids, index) ==
    IF index < Len(pids)
    THEN imgpc' = "ps" /\ imgidx' = index + 1 /\ imgret' = imgret
    ELSE imgpc' = "returned" /\ imgidx' = index /\ imgret' = "True"

\* lsof -t: the pids that hold the image
ImgLsof ==
    /\ imgpc = "lsof"
    /\ LET e == ImgExec(LsofCmd(DiskImagePath), FALSE, FALSE)
           pids == SplitLines(Strip(e.c.result.stdout))
       IN  /\ ImgRan(e)
           /\ imgpids' = pids
           /\ IF pids # <<>>
              THEN imgpc' = "ps" /\ imgidx' = 1 /\ imgret' = imgret
              ELSE imgpc' = "returned" /\ imgidx' = imgidx /\ imgret' = "True"
    /\ UNCHANGED <<imgreq, imgstart>>
    /\ UNCHANGED <<cmdVars, ifVars, fsVars, pairVars, taskVars, duoVars, gwVars>>

\* ps -p pid -o comm=: a qemu process is killed, or makes the function
\* return False
ImgPs ==
    /\ imgpc = "ps"
    /\ LET e == ImgExec(PsCommCmd(imgpids[imgidx]), FALSE, FALSE)
       IN  /\ ImgRan(e)
           /\ IF StartsWithQemu(Concat(Strip(e.c.result.stdout)))
              THEN IF imgreq.kill_running_vms
                   THEN imgpc' = "kill" /\ imgidx' = imgidx /\ imgret' = imgret
                   ELSE imgpc' = "returned" /\ imgidx' = imgidx /\ imgret' = "False"
              ELSE ImgAdvance(imgpids, imgidx)
    /\ UNCHANGED <<imgreq, imgstart, imgpids>>
    /\ UNCHANGED <<cmdVars, ifVars, fsVars, pairVars, taskVars, duoVars, gwVars>>

\* kill -9 pid with sudo=True and the default fail_on_returncode
ImgKill ==
    /\ imgpc = "kill"
    /\ LET e == ImgExec(KillCmd(imgpids[imgidx]), TRUE, TRUE)
       IN  /\ ImgRan(e)
           /\ IF e.c.raised
              THEN imgpc' = "returned" /\ imgidx' = imgidx /\ imgret' = "raised"
              ELSE ImgAdvance(imgpids, imgidx)
    /\ UNCHANGED <<imgreq, imgstart, imgpids>>
    /\ UNCHANGED <<cmdVars, ifVars, fsVars, pairVars, taskVars, duoVars, gwVars>>

ImgNext ==
    \/ ImgCall
    \/ ImgLsof
    \/ ImgPs
    \/ ImgKill

InitImg == CmdInit /\ IfIdle /\ FsIdle /\ PairInit /\ ExtIdle

\* one call of validate_image_use
SpecImg == InitImg /\ [][ImgNext]_vars

\* the pids the function has dispatched a kill for, in order
RECURSIVE KilledIn(_)
KilledIn(log) ==
    IF log = <<>> THEN <<>>
    ELSE LET c == ImgParse(Head(log).command)
         IN  (IF c.op = "kill" THEN <<c.a>> ELSE <<>>) \o KilledIn(Tail(log))

\* the processes of the list that are qemu processes, in order
RECURSIVE QemuAmong(_, _)
QemuAmong(pids, procs) ==
    IF pids = <<>> THEN <<>>
    ELSE (IF procs[Head(pids)].comm = "qemu-system-x86" THEN <<Head(pids)>> ELSE <<>>)
         \o QemuAmong(Tail(pids), procs)

\* C28: validate_image_use returns False if and only if kill_running_vms is
\* false and a qemu process holds the image; with kill_running_vms true it
\* dispatches a kill for every qemu process that holds the image, for no
\* other process, and returns True.
C28_ValidateImageUse ==
    imgpc = "returned" =>
        LET qemu == QemuAmong(imgstart.holders, imgstart.procs)
        IN  /\ (imgret = "False") <=> (~imgreq.kill_running_vms /\ qemu # <<>>)
            /\ imgreq.kill_running_vms =>
                  /\ imgret = "True"
                  /\ KilledIn(imglog) = qemu

====
